---- MODULE Spec2Model ----
(***************************************************************************)
(* Ingestion pipeline of SubidaDatosPython: the job registry               *)
(* (app/utils/job_manager.py), the two background workers                  *)
(* (app/services/excel_service.py, app/services/flujo_caja_service.py),    *)
(* their thread wrappers (app/controllers/*_controller.py) and the two     *)
(* transactional persistence entry points                                  *)
(* (app/repositories/balance_general_repository.py,                        *)
(*  app/repositories/flujo_caja_repository.py).                            *)
(*                                                                         *)
(* Money amounts are integers in cents, so the tolerance 0.01 is 1.        *)
(* Every call that reaches the database (connect, statement, commit,       *)
(* rollback) either returns or raises; a statement that raises has no      *)
(* effect on the store.                                                    *)
(***************************************************************************)
EXTENDS Integers, Sequences, FiniteSets, TLC

VARIABLES
    jobs,        \* JobManager.jobs: job id -> JobStatusResponse, or NoJob
    clock,       \* datetime.now(), as a logical clock
    nsub,        \* number of submissions accepted so far; job ids are 1..nsub
    req,         \* the upload being processed: kind, client, parsed content
    pc,          \* position of the worker thread
    loc,         \* locals of process_and_save_async
    rpc,         \* position inside the persistence call
    rloc,        \* locals of the persistence call
    db,          \* the relational store and the connection of the call
    trace,       \* database calls issued by the current persistence call
    returns,     \* what the persistence call of each submission returned
    audit,       \* audit-log records written
    files,       \* temporary upload files that exist
    modelExtra,  \* pydantic "extra" setting of JobStatusResponse
    parser,      \* a run of one of the two sheet parsers, row by row
    threads      \* registry calls in flight, one per thread

vars == <<jobs, clock, nsub, req, pc, loc, rpc, rloc, db, trace, returns,
          audit, files, modelExtra, parser, threads>>

\* the pipeline itself runs no stand-alone parser and no stand-alone registry call
NoParser == [kind |-> "none"]

NoThreads == << >>

----------------------------------------------------------------------------
(* Bounds *)

MaxSubmissions == 2
MaxRows == 2
MaxGroups == 2

----------------------------------------------------------------------------
(* Input data *)

Tolerancia == 1

TopErrores == 100

RowActivo ==
    [nivel |-> "Clase", transaccional |-> "No", codigo |-> <<1>>,
     nombre |-> "Activo", saldo_inicial |-> 0, debito |-> 500,
     credito |-> 0, saldo_final |-> 500]

RowPasivo ==
    [nivel |-> "Clase", transaccional |-> "No", codigo |-> <<2>>,
     nombre |-> "Pasivo", saldo_inicial |-> 0, debito |-> 0,
     credito |-> 500, saldo_final |-> -500]

RowDescuadre ==
    [nivel |-> "Cuenta", transaccional |-> "Sí", codigo |-> <<1, 1>>,
     nombre |-> "Caja", saldo_inicial |-> 100, debito |-> 0,
     credito |-> 0, saldo_final |-> 300]

RowSinNivel ==
    [nivel |-> "", transaccional |-> "No", codigo |-> <<3>>,
     nombre |-> "Patrimonio", saldo_inicial |-> 0, debito |-> 0,
     credito |-> 0, saldo_final |-> 0]

RowTemplates == <<RowActivo, RowPasivo, RowDescuadre, RowSinNivel>>

\* Row lists of an upload: each account line appears at most once, in template
\* order (the position of a row only matters through which insert fails, and
\* that is chosen freely by the store).
SortedIndexes ==
    { s \in UNION { [1..m -> 1..Len(RowTemplates)] : m \in 0..MaxRows } :
        \A a, b \in DOMAIN s : a < b => s[a] < s[b] }

RowLists == { [i \in DOMAIN s |-> RowTemplates[s[i]]] : s \in SortedIndexes }

GrupoOk ==
    [encabezado |-> [codigo_contable |-> "1105", debito |-> 10000, credito |-> 0],
     detalles |-> << [codigo_contable |-> "1105", debito |-> 6000, credito |-> 0],
                     [codigo_contable |-> "1105", debito |-> 4000, credito |-> 0] >>]

GrupoMal ==
    [encabezado |-> [codigo_contable |-> "2205", debito |-> 10000, credito |-> 0],
     detalles |-> << [codigo_contable |-> "2205", debito |-> 9000, credito |-> 0] >>]

GrupoSinDetalles ==
    [encabezado |-> [codigo_contable |-> "1110", debito |-> 0, credito |-> 0],
     detalles |-> << >>]

GrupoTemplates == {GrupoOk, GrupoMal, GrupoSinDetalles}

GrupoLists == UNION { [1..m -> GrupoTemplates] : m \in 0..MaxGroups }

\* dbo.Clientes: NumeroDocumento -> IdCliente (0: no such client)
Clientes == [d \in {"900123456", "999"} |-> IF d = "900123456" THEN 1 ELSE 0]

FechaCarga == "20240630"

----------------------------------------------------------------------------
(* Job registry: app/utils/job_manager.py, app/models/schemas.py *)

NoJob == [absent |-> TRUE]

NoResult == [tag |-> "none"]

Nil == -1

Err(m) == [msg |-> m, fila |-> 0]

NilErrors == << Err("nil") >>

NoUpd ==
    [status |-> "nil", message |-> "nil", progress |-> Nil, total_rows |-> Nil,
     processed_rows |-> Nil, errors |-> NilErrors, result |-> NoResult]

Terminal == {"completed", "failed"}

create_job(now) ==
    [status |-> "pending", message |-> "Trabajo creado, esperando procesamiento",
     progress |-> 0, total_rows |-> 0, processed_rows |-> 0, errors |-> << >>,
     result |-> NoResult, created_at |-> now, updated_at |-> now,
     started_at |-> Nil, completed_at |-> Nil]

\* JobStatusResponse declares neither "result" nor "started_at".  Assigning an
\* undeclared attribute of a pydantic model raises ValueError unless the model
\* accepts extra attributes; schemas.py sets no model_config, so the setting is
\* pydantic's default ("ignore").  Both settings are explored.
RaisesAtResult(u) == u.result # NoResult /\ modelExtra = "ignore"

RaisesAtStarted(job, u) ==
    u.status = "processing" /\ job.started_at = Nil /\ modelExtra = "ignore"

\* lines 48-60: the fields assigned before "result"
MergeFields(job, u) ==
    [job EXCEPT
        !.status         = IF u.status # "nil" THEN u.status ELSE @,
        !.message        = IF u.message \notin {"nil", ""} THEN u.message ELSE @,
        !.progress       = IF u.progress # Nil THEN u.progress ELSE @,
        !.total_rows     = IF u.total_rows # Nil THEN u.total_rows ELSE @,
        !.processed_rows = IF u.processed_rows # Nil THEN u.processed_rows ELSE @,
        !.errors         = IF u.errors # NilErrors THEN u.errors ELSE @]

\* lines 61-70
StampFields(job, m, u, now) ==
    LET m2 == [m EXCEPT !.result = IF u.result # NoResult THEN u.result ELSE @,
                        !.updated_at = now]
        m3 == IF u.status = "processing" /\ job.started_at = Nil
              THEN [m2 EXCEPT !.started_at = now] ELSE m2
    IN  IF u.status \in Terminal THEN [m3 EXCEPT !.completed_at = now] ELSE m3

update_job_record(job, u, now) ==
    LET m == MergeFields(job, u)
    IN  IF RaisesAtResult(u) THEN m
        ELSE IF RaisesAtStarted(job, u) THEN [m EXCEPT !.updated_at = now]
        ELSE StampFields(job, m, u, now)

update_job(js, id, u, now) ==
    IF js[id] = NoJob THEN js
    ELSE [js EXCEPT ![id] = update_job_record(@, u, now)]

update_job_raises(js, id, u) ==
    js[id] # NoJob /\ (RaisesAtResult(u) \/ RaisesAtStarted(js[id], u))

----------------------------------------------------------------------------
(* The store: dbo.BalanceGeneral and its queries
   (app/repositories/balance_general_repository.py) *)

RECURSIVE SeqSum(_)
SeqSum(s) == IF s = << >> THEN 0 ELSE Head(s) + SeqSum(Tail(s))

Abs(x) == IF x < 0 THEN -x ELSE x

\* a row as dbo.BalanceGeneralInsertar stores it for submission n
StoredRow(n, cliente, row) ==
    [sub |-> n, id_cliente |-> Clientes[cliente], fecha |-> FechaCarga, row |-> row]

\* rows a statement on the call's connection sees: committed rows and the
\* rows of its own open transaction
Visible(d) == d.balance \o d.tx_balance

\* WHERE [Fecha] = ? AND [IdCliente] = ?
Scoped(rows, fecha, id_cliente) ==
    SelectSeq(rows, LAMBDA x : x.fecha = fecha /\ x.id_cliente = id_cliente)

get_totales_generales(rows, fecha, id_cliente) ==
    LET sel == Scoped(rows, fecha, id_cliente)
    IN  [total_registros    |-> Len(sel),
         suma_saldo_inicial |-> SeqSum([i \in DOMAIN sel |-> sel[i].row.saldo_inicial]),
         suma_debito        |-> SeqSum([i \in DOMAIN sel |-> sel[i].row.debito]),
         suma_credito       |-> SeqSum([i \in DOMAIN sel |-> sel[i].row.credito]),
         suma_saldo_final   |-> SeqSum([i \in DOMAIN sel |-> sel[i].row.saldo_final])]

\* SUM(CASE WHEN Nivel = 'Clase' AND Transaccional = 0 AND LEFT(codigo, 1) = k
\*          THEN ABS(SaldoFinal) ELSE 0 END)
TotalClase(sel, k) ==
    SeqSum([i \in DOMAIN sel |->
        IF /\ sel[i].row.nivel = "Clase"
           /\ sel[i].row.transaccional = "No"
           /\ sel[i].row.codigo # << >>
           /\ Head(sel[i].row.codigo) = k
        THEN Abs(sel[i].row.saldo_final) ELSE 0])

get_totales_por_clase(rows, fecha, id_cliente) ==
    LET sel == Scoped(rows, fecha, id_cliente)
    IN  [total_clase_1 |-> TotalClase(sel, 1), total_clase_2 |-> TotalClase(sel, 2),
         total_clase_3 |-> TotalClase(sel, 3), total_clase_4 |-> TotalClase(sel, 4),
         total_clase_5 |-> TotalClase(sel, 5)]

get_ecuacion_contable(rows, fecha, id_cliente) ==
    LET sel == Scoped(rows, fecha, id_cliente)
    IN  [activos |-> TotalClase(sel, 1), pasivos |-> TotalClase(sel, 2),
         patrimonio |-> TotalClase(sel, 3),
         diferencia_ecuacion_contable |->
            Abs(TotalClase(sel, 1) - (TotalClase(sel, 2) + TotalClase(sel, 3)))]

\* ABS(SaldoFinal - (SaldoInicial + MovimientoDebito - MovimientoCredito))
Diferencia(row) ==
    Abs(row.saldo_final - (row.saldo_inicial + row.debito - row.credito))

\* ORDER BY Diferencia DESC: the row at position k is the one with k - 1 rows
\* before it, those further off and, among equals, those met earlier
OrderByDiferenciaDesc(s) ==
    LET Antes(i) == {j \in 1..Len(s) :
                       \/ Diferencia(s[j].row) > Diferencia(s[i].row)
                       \/ Diferencia(s[j].row) = Diferencia(s[i].row) /\ j < i}
    IN  [k \in 1..Len(s) |-> s[CHOOSE i \in 1..Len(s) : Cardinality(Antes(i)) = k - 1]]

\* variant: the rows are returned in table order
get_errores_ecuacion_Unordered(rows, fecha, id_cliente) ==
    LET sel == SelectSeq(Scoped(rows, fecha, id_cliente),
                         LAMBDA x : Diferencia(x.row) > Tolerancia)
        ord == sel
    IN  IF Len(ord) > TopErrores THEN SubSeq(ord, 1, TopErrores) ELSE ord

\* SELECT TOP 100 ... WHERE ... AND Diferencia > 0.01 ORDER BY Diferencia DESC
get_errores_ecuacion(rows, fecha, id_cliente) ==
    LET sel == SelectSeq(Scoped(rows, fecha, id_cliente),
                         LAMBDA x : Diferencia(x.row) > Tolerancia)
        ord == OrderByDiferenciaDesc(sel)
    IN  IF Len(ord) > TopErrores THEN SubSeq(ord, 1, TopErrores) ELSE ord

\* get_cliente_info: the lookup returns the id, returns None (0) when there is
\* no such client or when its query fails (swallowed), or raises when its own
\* connection cannot be opened
get_cliente_info(cliente) ==
    { [raised |-> TRUE, id_cliente |-> 0], [raised |-> FALSE, id_cliente |-> 0] }
    \cup (IF Clientes[cliente] # 0
          THEN { [raised |-> FALSE, id_cliente |-> Clientes[cliente]] } ELSE { })

NoReturn == [returned |-> FALSE]

NoTotales == [tag |-> "none"]

Ev(op, ok) == [op |-> op, ok |-> ok]

----------------------------------------------------------------------------
(* Initial state and submission: process_excel of the two controllers *)

InitLoc ==
    [rows |-> << >>, grupos |-> << >>, result |-> NoReturn, id_cliente |-> 0,
     exc |-> "none", estado |-> "none", warnings |-> << >>, verrors |-> << >>]

InitRloc ==
    [i |-> 1, d |-> 1, id_cliente |-> 0, rows_inserted |-> 0, exc |-> "none",
     result |-> NoReturn, errors |-> << >>,
     totales_generales |-> NoTotales, totales_clase |-> NoTotales,
     ecuacion |-> NoTotales, errores_ecuacion_count |-> 0,
     ids_encabezados |-> << >>, id_encabezado |-> 0]

InitDb ==
    [balance |-> << >>, tx_balance |-> << >>,
     encabezados |-> << >>, detalles |-> << >>,
     tx_encabezados |-> << >>, tx_detalles |-> << >>,
     conn |-> "none", in_tx |-> FALSE]

NoRequest ==
    [kind |-> "none", cliente |-> "900123456", parse_ok |-> TRUE,
     rows |-> << >>, grupos |-> << >>]

Init ==
    /\ jobs = [j \in 1..MaxSubmissions |-> NoJob]
    /\ clock = 0
    /\ nsub = 0
    /\ req = NoRequest
    /\ pc = "idle"
    /\ loc = InitLoc
    /\ rpc = "idle"
    /\ rloc = InitRloc
    /\ db = InitDb
    /\ trace = << >>
    /\ returns = [j \in 1..MaxSubmissions |-> NoReturn]
    /\ audit = << >>
    /\ files = { }
    /\ modelExtra \in {"ignore", "allow"}
    /\ parser = NoParser
    /\ threads = NoThreads

Requests ==
    { [kind |-> "balance", cliente |-> c, parse_ok |-> ok, rows |-> r, grupos |-> << >>] :
        c \in DOMAIN Clientes, ok \in BOOLEAN, r \in RowLists }
    \cup
    { [kind |-> "flujo_caja", cliente |-> c, parse_ok |-> ok, rows |-> << >>, grupos |-> g] :
        c \in {"900123456"}, ok \in BOOLEAN, g \in GrupoLists }

\* variant: the worker thread is started without registering the job
Submit_StartsUnregistered ==
    /\ pc = "idle"
    /\ nsub < MaxSubmissions
    /\ \E r \in Requests :
        /\ r.parse_ok \/ (r.rows = << >> /\ r.grupos = << >>)
        /\ req' = r
        /\ pc' = IF r.kind = "balance" THEN "b_start" ELSE "c_start"
    /\ nsub' = nsub + 1
    /\ jobs' = jobs
    /\ clock' = clock + 1
    /\ files' = files \cup {nsub + 1}
    /\ loc' = InitLoc
    /\ rpc' = "idle"
    /\ rloc' = InitRloc
    /\ trace' = << >>
    /\ db' = [db EXCEPT !.conn = "none"]
    /\ UNCHANGED <<returns, audit, modelExtra, parser, threads>>

\* The request handler up to thread.start(): the uploaded file is saved, the
\* job is registered and the worker thread is started.
Submit ==
    /\ pc = "idle"
    /\ nsub < MaxSubmissions
    /\ \E r \in Requests :
        /\ r.parse_ok \/ (r.rows = << >> /\ r.grupos = << >>)
        /\ req' = r
        /\ pc' = IF r.kind = "balance" THEN "b_start" ELSE "c_start"
    /\ nsub' = nsub + 1
    /\ jobs' = [jobs EXCEPT ![nsub + 1] = create_job(clock)]
    /\ clock' = clock + 1
    /\ files' = files \cup {nsub + 1}
    /\ loc' = InitLoc
    /\ rpc' = "idle"
    /\ rloc' = InitRloc
    /\ trace' = << >>
    /\ db' = [db EXCEPT !.conn = "none"]
    /\ UNCHANGED <<returns, audit, modelExtra, parser, threads>>

----------------------------------------------------------------------------
(* Worker helpers *)

\* one job_manager.update_job call made by the worker for its own job
DoUpdate(u, next, onRaise) ==
    /\ jobs' = update_job(jobs, nsub, u, clock)
    /\ clock' = clock + 1
    /\ IF update_job_raises(jobs, nsub, u)
       THEN pc' = onRaise /\ loc' = [loc EXCEPT !.exc = "ValueError"]
       ELSE pc' = next /\ loc' = loc

\* insert_log_carga / insert_log_flujo_caja inside the helper's own try/except:
\* the record is written, or the failure is swallowed
AuditWrite(estado) ==
    \E ok \in BOOLEAN :
        audit' = IF ok THEN Append(audit, [sub |-> nsub, estado |-> estado]) ELSE audit

Raise(e, handler) ==
    /\ pc' = handler
    /\ loc' = [loc EXCEPT !.exc = e]

\* ExcelService._log_error: the client lookup (outside the helper's try) and
\* then the audit write (inside it)
LogError(lookup, next, handler) ==
    \E o \in get_cliente_info(req.cliente) :
        IF lookup /\ o.raised
        THEN Raise("E_db", handler) /\ audit' = audit
        ELSE pc' = next /\ loc' = loc /\ AuditWrite("ERROR")

RECURSIVE RowErrors(_, _)
RowErrors(rows, i) ==
    IF i > Len(rows) THEN << >>
    ELSE (IF rows[i].nivel = "" THEN << [msg |-> "Nivel es requerido", fila |-> i + 7] >> ELSE << >>)
      \o (IF rows[i].codigo = << >>
          THEN << [msg |-> "Código cuenta contable es requerido", fila |-> i + 7] >> ELSE << >>)
      \o (IF rows[i].nombre = ""
          THEN << [msg |-> "Nombre cuenta contable es requerido", fila |-> i + 7] >> ELSE << >>)
      \o RowErrors(rows, i + 1)

\* variant: a blank client id adds no message
validate_data_BlankClient(rows, fecha, cliente) ==
    LET isdigit == fecha \in {"20240630", "2024063"}
        errors ==
            (IF fecha = "" \/ Len(fecha) # 8 \/ ~isdigit
             THEN << [msg |-> "Fecha debe estar en formato YYYYMMDD", fila |-> 0] >>
             ELSE << >>)
         \o (IF FALSE /\ cliente = ""
             THEN << [msg |-> "Identificación del cliente es requerida", fila |-> 0] >>
             ELSE << >>)
         \o RowErrors(rows, 1)
    IN  [valid |-> Len(errors) = 0, errors |-> errors, total_rows |-> Len(rows)]

\* fecha.isdigit() is tabulated over the dates the model submits; a blank
\* client is "" or text of blanks, which strip() empties
validate_data(rows, fecha, cliente) ==
    LET isdigit == fecha \in {"20240630", "2024063"}
        errors ==
            (IF fecha = "" \/ Len(fecha) # 8 \/ ~isdigit
             THEN << [msg |-> "Fecha debe estar en formato YYYYMMDD", fila |-> 0] >>
             ELSE << >>)
         \o (IF cliente = "" \/ cliente = "  "
             THEN << [msg |-> "Identificación del cliente es requerida", fila |-> 0] >>
             ELSE << >>)
         \o RowErrors(rows, 1)
    IN  [valid |-> Len(errors) = 0, errors |-> errors, total_rows |-> Len(rows)]

----------------------------------------------------------------------------
(* Balance worker: ExcelService.process_and_save_async
   (app/services/excel_service.py:310-510) *)

repoVars == <<rpc, rloc, db, trace, returns>>

B_Processing ==
    /\ pc = "b_start"
    /\ DoUpdate([NoUpd EXCEPT !.status = "processing", !.message = "Leyendo archivo Excel...",
                              !.progress = 10], "b_parse", "b_except")
    /\ UNCHANGED <<nsub, req, repoVars, audit, files, modelExtra, parser, threads>>

\* variant: the parser returns an empty row list instead of raising
B_Parse_AcceptsEmpty ==
    /\ pc = "b_parse"
    /\ IF req.parse_ok
       THEN pc' = "b_parsed" /\ loc' = [loc EXCEPT !.rows = req.rows]
       ELSE Raise("ValueError", "b_except")
    /\ UNCHANGED <<jobs, clock, nsub, req, repoVars, audit, files, modelExtra, parser, threads>>

\* process_excel_file: raises when the sheet cannot be read or has no rows
B_Parse ==
    /\ pc = "b_parse"
    /\ IF req.parse_ok /\ Len(req.rows) > 0
       THEN pc' = "b_parsed" /\ loc' = [loc EXCEPT !.rows = req.rows]
       ELSE Raise("ValueError", "b_except")
    /\ UNCHANGED <<jobs, clock, nsub, req, repoVars, audit, files, modelExtra, parser, threads>>

B_Parsed ==
    /\ pc = "b_parsed"
    /\ DoUpdate([NoUpd EXCEPT !.message = "Archivo procesado", !.progress = 20,
                              !.total_rows = Len(loc.rows)], "b_validating", "b_except")
    /\ UNCHANGED <<nsub, req, repoVars, audit, files, modelExtra, parser, threads>>

\* variant: the VALIDATING update puts the job back to Pending
B_Validating_Backwards ==
    /\ pc = "b_validating"
    /\ DoUpdate([NoUpd EXCEPT !.status = "pending", !.progress = 30],
                "b_validate", "b_except")
    /\ UNCHANGED <<nsub, req, repoVars, audit, files, modelExtra, parser, threads>>

B_Validating ==
    /\ pc = "b_validating"
    /\ DoUpdate([NoUpd EXCEPT !.status = "validating",
                              !.message = "Validando estructura de datos...",
                              !.progress = 30], "b_validate", "b_except")
    /\ UNCHANGED <<nsub, req, repoVars, audit, files, modelExtra, parser, threads>>

B_Validate ==
    /\ pc = "b_validate"
    /\ LET v == validate_data(loc.rows, FechaCarga, req.cliente)
       IN  IF v.valid
           THEN pc' = "b_saving" /\ loc' = loc
           ELSE pc' = "b_vlog" /\ loc' = [loc EXCEPT !.verrors = v.errors]
    /\ UNCHANGED <<jobs, clock, nsub, req, repoVars, audit, files, modelExtra, parser, threads>>

B_ValidationLog ==
    /\ pc = "b_vlog"
    /\ LogError(TRUE, "b_vfail", "b_except")
    /\ UNCHANGED <<jobs, clock, nsub, req, repoVars, files, modelExtra, parser, threads>>

B_ValidationFailed ==
    /\ pc = "b_vfail"
    /\ DoUpdate([NoUpd EXCEPT !.status = "failed",
                              !.message = "Validación de estructura falló",
                              !.progress = 100, !.errors = loc.verrors],
                "cleanup", "b_except")
    /\ UNCHANGED <<nsub, req, repoVars, audit, files, modelExtra, parser, threads>>

\* the SAVING update and the entry into save_with_transaction_and_validations
B_Saving ==
    /\ pc = "b_saving"
    /\ DoUpdate([NoUpd EXCEPT !.status = "saving",
                              !.message = "Guardando datos en transacción...",
                              !.progress = 50], "b_save", "b_except")
    /\ rpc' = IF pc' = "b_save" THEN "connect" ELSE rpc
    /\ UNCHANGED <<nsub, req, rloc, db, trace, returns, audit, files, modelExtra, parser, threads>>

\* line 397: the lookup after the persistence call has returned
B_Lookup ==
    /\ pc = "b_lookup"
    /\ \E o \in get_cliente_info(req.cliente) :
        IF o.raised
        THEN Raise("E_db", "b_except")
        ELSE /\ pc' = IF loc.result.success THEN "b_ok" ELSE "b_flog"
             /\ loc' = [loc EXCEPT !.id_cliente = o.id_cliente]
    /\ UNCHANGED <<jobs, clock, nsub, req, repoVars, audit, files, modelExtra, parser, threads>>

\* lines 405-422: nombre_cliente is always non-empty here, so _log_error looks
\* the client up again only when id_cliente is None
B_FailureLog ==
    /\ pc = "b_flog"
    /\ LogError(loc.id_cliente = 0, "b_ffail", "b_except")
    /\ UNCHANGED <<jobs, clock, nsub, req, repoVars, files, modelExtra, parser, threads>>

B_Failed ==
    /\ pc = "b_ffail"
    /\ DoUpdate([NoUpd EXCEPT !.status = "failed",
                              !.message = "Validaciones contables fallaron",
                              !.progress = 100, !.errors = loc.result.errors],
                "cleanup", "b_except")
    /\ UNCHANGED <<nsub, req, repoVars, audit, files, modelExtra, parser, threads>>

\* lines 436-477: the warning list and the ADVERTENCIA / EXITOSO audit record
B_Outcome ==
    /\ pc = "b_ok"
    /\ LET warnings == IF loc.result.errores_ecuacion_count > 0
                       THEN << Err("diferencias en ecuación individual") >> ELSE << >>
           estado == IF warnings # << >> THEN "ADVERTENCIA" ELSE "EXITOSO"
       IN  /\ AuditWrite(estado)
           /\ loc' = [loc EXCEPT !.warnings = warnings, !.estado = estado]
    /\ pc' = "b_complete"
    /\ UNCHANGED <<jobs, clock, nsub, req, repoVars, files, modelExtra, parser, threads>>

\* variant: after writing Completed the worker falls into its except block
B_Completed_FallsIntoExcept ==
    /\ pc = "b_complete"
    /\ DoUpdate([NoUpd EXCEPT !.status = "completed",
                              !.message = loc.estado,
                              !.progress = 100,
                              !.processed_rows = loc.result.rows_inserted,
                              !.errors = loc.warnings],
                "b_except", "b_except")
    /\ UNCHANGED <<nsub, req, repoVars, audit, files, modelExtra, parser, threads>>

B_Completed ==
    /\ pc = "b_complete"
    /\ DoUpdate([NoUpd EXCEPT !.status = "completed",
                              !.message = loc.estado,
                              !.progress = 100,
                              !.processed_rows = loc.result.rows_inserted,
                              !.errors = loc.warnings],
                "cleanup", "b_except")
    /\ UNCHANGED <<nsub, req, repoVars, audit, files, modelExtra, parser, threads>>

\* lines 491-502: the except block of the service; _log_error may raise again
B_ExceptLog ==
    /\ pc = "b_except"
    /\ LogError(TRUE, "b_efail", "t_except")
    /\ UNCHANGED <<jobs, clock, nsub, req, repoVars, files, modelExtra, parser, threads>>

B_ExceptFailed ==
    /\ pc = "b_efail"
    /\ DoUpdate([NoUpd EXCEPT !.status = "failed", !.message = "Error crítico",
                              !.progress = 100, !.errors = << Err(loc.exc) >>],
                "cleanup", "t_except")
    /\ UNCHANGED <<nsub, req, repoVars, audit, files, modelExtra, parser, threads>>

----------------------------------------------------------------------------
(* Thread wrapper: process_in_thread of both controllers *)

\* variant: the wrapper swallows the exception without touching the job
T_ExceptFailed_Silent ==
    /\ pc = "t_except"
    /\ pc' = "cleanup"
    /\ UNCHANGED <<jobs, clock, nsub, req, loc, repoVars, audit, files, modelExtra, parser, threads>>

T_ExceptFailed ==
    /\ pc = "t_except"
    /\ DoUpdate([NoUpd EXCEPT !.status = "failed", !.message = "Error inesperado",
                              !.progress = 100, !.errors = << Err(loc.exc) >>],
                "cleanup", "cleanup")
    /\ UNCHANGED <<nsub, req, repoVars, audit, files, modelExtra, parser, threads>>

\* variant: the wrapper's finally block re-queues the job
T_Cleanup_Requeue ==
    /\ pc = "cleanup"
    /\ files' = files \ {nsub}
    /\ pc' = "idle"
    /\ req' = NoRequest
    /\ loc' = InitLoc
    /\ trace' = << >>
    /\ jobs' = [jobs EXCEPT ![nsub].status = "pending"]
    /\ UNCHANGED <<clock, nsub, rpc, rloc, db, returns, audit, modelExtra, parser, threads>>

\* variant: the wrapper's finally block ends the thread without removing the file
T_Cleanup_KeepsFile ==
    /\ pc = "cleanup"
    /\ pc' = "idle"
    /\ req' = NoRequest
    /\ loc' = InitLoc
    /\ trace' = << >>
    /\ UNCHANGED <<jobs, clock, nsub, rpc, rloc, db, returns, audit, files, modelExtra, parser, threads>>

\* finally: cleanup_file(file_path); the thread ends
T_Cleanup ==
    /\ pc = "cleanup"
    /\ files' = files \ {nsub}
    /\ pc' = "idle"
    /\ req' = NoRequest
    /\ loc' = InitLoc
    /\ trace' = << >>
    /\ UNCHANGED <<jobs, clock, nsub, rpc, rloc, db, returns, audit, modelExtra, parser, threads>>

----------------------------------------------------------------------------
(* Balance persistence: BalanceGeneralRepository.save_with_transaction_and_validations
   (app/repositories/balance_general_repository.py:304-502) *)

workerVars == <<jobs, clock, nsub, req, audit, files, modelExtra, parser, threads>>

Log(e) == trace' = Append(trace, e)

ToHandler(e) ==
    /\ rpc' = "handler"
    /\ rloc' = [rloc EXCEPT !.exc = e]

Result(success, kind, rows_inserted, errors) ==
    [success |-> success, kind |-> kind, rows_inserted |-> rows_inserted,
     errors |-> errors,
     totales_generales |-> NoTotales, totales_clase |-> NoTotales,
     ecuacion |-> NoTotales, errores_ecuacion_count |-> 0]

WithTotales(res) ==
    [res EXCEPT !.totales_generales = rloc.totales_generales,
                !.totales_clase = rloc.totales_clase,
                !.ecuacion = rloc.ecuacion,
                !.errores_ecuacion_count = rloc.errores_ecuacion_count]

\* where the call goes once the insert loop is over (lines 386 and 398)
AfterInserts(id_cliente) == IF id_cliente = 0 THEN "rollback_cliente" ELSE "totales"

\* ROLLBACK TRANSACTION that returns: the rows of the open transaction are gone
Rollback(d) == [d EXCEPT !.tx_balance = << >>, !.tx_encabezados = << >>,
                         !.tx_detalles = << >>, !.in_tx = FALSE]

\* COMMIT that returns: the rows of the open transaction become permanent
Commit(d) == [d EXCEPT !.balance = @ \o d.tx_balance, !.tx_balance = << >>,
                       !.encabezados = @ \o d.tx_encabezados, !.tx_encabezados = << >>,
                       !.detalles = @ \o d.tx_detalles, !.tx_detalles = << >>,
                       !.in_tx = FALSE]

\* closing a connection discards the work of a transaction still open on it
Close(d) == [Rollback(d) EXCEPT !.conn = "closed"]

\* lines 316-317, outside the try: a failure to connect leaves the call
BG_Connect ==
    /\ pc = "b_save" /\ rpc = "connect"
    /\ \/ /\ db' = [db EXCEPT !.conn = "open"]
          /\ rpc' = "cliente"
          /\ UNCHANGED <<pc, loc, returns>>
       \/ /\ rpc' = "idle"
          /\ Raise("E_db", "b_except")
          /\ returns' = [returns EXCEPT ![nsub] =
                            [returned |-> TRUE, raised |-> TRUE, result |-> NoReturn]]
          /\ UNCHANGED db
    /\ UNCHANGED <<workerVars, rloc, trace>>

\* lines 321-323
BG_Cliente ==
    /\ pc = "b_save" /\ rpc = "cliente"
    /\ \E o \in get_cliente_info(req.cliente) :
        IF o.raised
        THEN ToHandler("E_db") /\ Log(Ev("cliente_info", FALSE))
        ELSE /\ rpc' = "begin"
             /\ rloc' = [rloc EXCEPT !.id_cliente = o.id_cliente]
             /\ Log(Ev(IF o.id_cliente = 0 THEN "cliente_none" ELSE "cliente_id", TRUE))
    /\ UNCHANGED <<workerVars, pc, loc, db, returns>>

\* line 326
BG_Begin ==
    /\ pc = "b_save" /\ rpc = "begin"
    /\ \/ /\ db' = [db EXCEPT !.in_tx = TRUE]
          /\ Log(Ev("begin", TRUE))
          /\ rpc' = IF Len(loc.rows) = 0 THEN AfterInserts(rloc.id_cliente) ELSE "insert"
          /\ rloc' = rloc
       \/ /\ Log(Ev("begin", FALSE))
          /\ ToHandler("E_db")
          /\ db' = db
    /\ UNCHANGED <<workerVars, pc, loc, returns>>

\* lines 332-372: one iteration of the insert loop
BG_Insert ==
    /\ pc = "b_save" /\ rpc = "insert"
    /\ \/ /\ db' = [db EXCEPT !.tx_balance =
                        Append(@, StoredRow(nsub, req.cliente, loc.rows[rloc.i]))]
          /\ Log(Ev("insert", TRUE))
          /\ rloc' = [rloc EXCEPT !.i = @ + 1, !.rows_inserted = @ + 1]
          /\ rpc' = IF rloc.i = Len(loc.rows) THEN AfterInserts(rloc.id_cliente)
                    ELSE "insert"
       \/ /\ Log(Ev("insert", FALSE))
          /\ rloc' = [rloc EXCEPT !.errors =
                        Append(@, [msg |-> "E_insert", fila |-> rloc.i + 7])]
          /\ rpc' = "rollback_insert"
          /\ db' = db
    /\ UNCHANGED <<workerVars, pc, loc, returns>>

\* variant: the inner except block commits what was inserted so far
BG_RollbackInsert_Commits ==
    /\ pc = "b_save" /\ rpc = "rollback_insert"
    /\ db' = Commit(db)
    /\ Log(Ev("commit", TRUE))
    /\ rpc' = "finally"
    /\ rloc' = [rloc EXCEPT !.result = Result(FALSE, "insert_error", 0, rloc.errors)]
    /\ UNCHANGED <<workerVars, pc, loc, returns>>

\* lines 375-382: the rollback of the inner except block
BG_RollbackInsert ==
    /\ pc = "b_save" /\ rpc = "rollback_insert"
    /\ \/ /\ db' = Rollback(db)
          /\ Log(Ev("rollback", TRUE))
          /\ rpc' = "finally"
          /\ rloc' = [rloc EXCEPT !.result = Result(FALSE, "insert_error", 0, rloc.errors)]
       \/ /\ Log(Ev("rollback", FALSE))
          /\ ToHandler("E_rollback")
          /\ db' = db
    /\ UNCHANGED <<workerVars, pc, loc, returns>>

\* variant: the client-not-found exit returns without issuing ROLLBACK
BG_RollbackCliente_Skipped ==
    /\ pc = "b_save" /\ rpc = "rollback_cliente"
    /\ rpc' = "finally"
    /\ rloc' = [rloc EXCEPT !.result =
                  Result(FALSE, "cliente_no_encontrado", 0,
                         << Err("Cliente no encontrado") >>)]
    /\ UNCHANGED <<workerVars, pc, loc, db, trace, returns>>

\* lines 386-395
BG_RollbackCliente ==
    /\ pc = "b_save" /\ rpc = "rollback_cliente"
    /\ \/ /\ db' = Rollback(db)
          /\ Log(Ev("rollback", TRUE))
          /\ rpc' = "finally"
          /\ rloc' = [rloc EXCEPT !.result =
                        Result(FALSE, "cliente_no_encontrado", 0,
                               << Err("Cliente no encontrado") >>)]
       \/ /\ Log(Ev("rollback", FALSE))
          /\ ToHandler("E_rollback")
          /\ db' = db
    /\ UNCHANGED <<workerVars, pc, loc, returns>>

\* one aggregate query on the cursor of the transaction
Query(name, field, value, next) ==
    /\ \/ /\ Log(Ev(name, TRUE))
          /\ rloc' = [rloc EXCEPT ![field] = value]
          /\ rpc' = next
       \/ /\ Log(Ev(name, FALSE))
          /\ ToHandler("E_db")
    /\ UNCHANGED <<workerVars, pc, loc, db, returns>>

\* line 398
BG_Totales ==
    /\ pc = "b_save" /\ rpc = "totales"
    /\ Query("totales_generales", "totales_generales",
             get_totales_generales(Visible(db), FechaCarga, rloc.id_cliente), "clase")

\* line 414
BG_Clase ==
    /\ pc = "b_save" /\ rpc = "clase"
    /\ Query("totales_por_clase", "totales_clase",
             get_totales_por_clase(Visible(db), FechaCarga, rloc.id_cliente), "ecuacion")

\* line 428
BG_Ecuacion ==
    /\ pc = "b_save" /\ rpc = "ecuacion"
    /\ Query("ecuacion_contable", "ecuacion",
             get_ecuacion_contable(Visible(db), FechaCarga, rloc.id_cliente), "errores")

\* lines 441-442: the discrepancy list
BG_Errores ==
    /\ pc = "b_save" /\ rpc = "errores"
    /\ Query("errores_ecuacion", "errores_ecuacion_count",
             Len(get_errores_ecuacion(Visible(db), FechaCarga, rloc.id_cliente)),
             "commit")

\* lines 445-483: the only gate (no row counted: ROLLBACK and failure), else
\* COMMIT TRANSACTION and conn.commit()
BG_Commit ==
    /\ pc = "b_save" /\ rpc = "commit"
    /\ \/ /\ db' = IF rloc.totales_generales.total_registros = 0
                   THEN Rollback(db) ELSE Commit(db)
          /\ Log(Ev(IF rloc.totales_generales.total_registros = 0
                    THEN "rollback" ELSE "commit", TRUE))
          /\ rpc' = "finally"
          /\ rloc' = [rloc EXCEPT !.result =
                        IF rloc.totales_generales.total_registros = 0
                        THEN WithTotales(Result(FALSE, "validacion", 0,
                                                << Err("No se insertaron registros") >>))
                        ELSE WithTotales(Result(TRUE, "ok", rloc.rows_inserted, << >>))]
       \/ /\ Log(Ev(IF rloc.totales_generales.total_registros = 0
                    THEN "rollback" ELSE "commit", FALSE))
          /\ ToHandler(IF rloc.totales_generales.total_registros = 0
                       THEN "E_rollback" ELSE "E_db")
          /\ db' = db
    /\ UNCHANGED <<workerVars, pc, loc, returns>>

\* lines 485-498: the outer except block; a failure of its rollback (also the
\* one raised when no transaction is open) is swallowed
BG_Handler ==
    /\ pc = "b_save" /\ rpc = "handler"
    /\ \/ /\ db.in_tx
          /\ db' = Rollback(db)
          /\ Log(Ev("rollback", TRUE))
       \/ /\ Log(Ev("rollback", FALSE))
          /\ db' = db
    /\ rpc' = "finally"
    /\ rloc' = [rloc EXCEPT !.result = Result(FALSE, "tx_error", 0, << Err(rloc.exc) >>)]
    /\ UNCHANGED <<workerVars, pc, loc, returns>>

\* lines 500-502, then the return to the worker
BG_Finally ==
    /\ pc = "b_save" /\ rpc = "finally"
    /\ db' = Close(db)
    /\ Log(Ev("close", TRUE))
    /\ rpc' = "idle"
    /\ pc' = "b_lookup"
    /\ loc' = [loc EXCEPT !.result = rloc.result]
    /\ returns' = [returns EXCEPT ![nsub] =
                      [returned |-> TRUE, raised |-> FALSE, result |-> rloc.result]]
    /\ rloc' = InitRloc
    /\ UNCHANGED workerVars

----------------------------------------------------------------------------
(* Cash-flow worker: FlujoCajaService.process_and_save_async
   (app/services/flujo_caja_service.py:235-401).  Its audit helpers call
   repository.insert_log_flujo_caja, which no repository class defines: the
   AttributeError is swallowed by the helper and no record is written. *)

RECURSIVE validar_grupos_desde(_, _)
validar_grupos_desde(grupos, idx) ==
    IF idx > Len(grupos) THEN [valid |-> TRUE, msg |-> "Validación exitosa", grupo |-> 0]
    ELSE IF grupos[idx].encabezado.codigo_contable = ""
         THEN [valid |-> FALSE, msg |-> "grupo sin código contable", grupo |-> idx]
    ELSE IF grupos[idx].detalles = << >>
         THEN [valid |-> FALSE, msg |-> "encabezado sin detalles", grupo |-> idx]
    ELSE IF \E k \in DOMAIN grupos[idx].detalles :
                grupos[idx].detalles[k].codigo_contable = ""
         THEN [valid |-> FALSE, msg |-> "detalle sin código contable", grupo |-> idx]
    ELSE validar_grupos_desde(grupos, idx + 1)

\* variant: an empty group list is accepted
validar_grupos_AcceptsEmpty(grupos) ==
    IF grupos = << >> /\ FALSE
    THEN [valid |-> FALSE, msg |-> "No se encontraron datos en el archivo", grupo |-> 0]
    ELSE validar_grupos_desde(grupos, 1)

validar_grupos(grupos) ==
    IF grupos = << >>
    THEN [valid |-> FALSE, msg |-> "No se encontraron datos en el archivo", grupo |-> 0]
    ELSE validar_grupos_desde(grupos, 1)

C_Processing ==
    /\ pc = "c_start"
    /\ DoUpdate([NoUpd EXCEPT !.status = "processing", !.message = "Leyendo archivo Excel...",
                              !.progress = 10], "c_parse", "c_except")
    /\ UNCHANGED <<nsub, req, repoVars, audit, files, modelExtra, parser, threads>>

\* procesar_excel_secuencial: raises when the sheet cannot be read or a detail
\* row precedes every header
C_Parse ==
    /\ pc = "c_parse"
    /\ IF req.parse_ok
       THEN pc' = "c_parsed" /\ loc' = [loc EXCEPT !.grupos = req.grupos]
       ELSE Raise("Exception", "c_except")
    /\ UNCHANGED <<jobs, clock, nsub, req, repoVars, audit, files, modelExtra, parser, threads>>

C_Parsed ==
    /\ pc = "c_parsed"
    /\ DoUpdate([NoUpd EXCEPT !.message = "Archivo procesado", !.progress = 30],
                "c_validate", "c_except")
    /\ UNCHANGED <<nsub, req, repoVars, audit, files, modelExtra, parser, threads>>

\* lines 270-285: validar_grupos and, on failure, the audit helper
C_Validate ==
    /\ pc = "c_validate"
    /\ LET v == validar_grupos(loc.grupos)
       IN  IF v.valid
           THEN pc' = "c_saving" /\ loc' = loc
           ELSE pc' = "c_vfail" /\ loc' = [loc EXCEPT !.verrors = << [msg |-> v.msg, fila |-> v.grupo] >>]
    /\ UNCHANGED <<jobs, clock, nsub, req, repoVars, audit, files, modelExtra, parser, threads>>

C_ValidationFailed ==
    /\ pc = "c_vfail"
    /\ DoUpdate([NoUpd EXCEPT !.status = "failed", !.message = "Validación fallida",
                              !.progress = 100, !.errors = loc.verrors],
                "cleanup", "c_except")
    /\ UNCHANGED <<nsub, req, repoVars, audit, files, modelExtra, parser, threads>>

\* variant: the update before the persistence call reports less progress than the one before it
C_Saving_LowersProgress ==
    /\ pc = "c_saving"
    /\ DoUpdate([NoUpd EXCEPT !.message = "Validación exitosa. Guardando en base de datos...",
                              !.progress = 20], "c_save", "c_except")
    /\ rpc' = IF pc' = "c_save" THEN "connect" ELSE rpc
    /\ UNCHANGED <<nsub, req, rloc, db, trace, returns, audit, files, modelExtra, parser, threads>>

\* lines 299-311: the progress update and the entry into subir_flujo_caja_secuencial
C_Saving ==
    /\ pc = "c_saving"
    /\ DoUpdate([NoUpd EXCEPT !.message = "Validación exitosa. Guardando en base de datos...",
                              !.progress = 50], "c_save", "c_except")
    /\ rpc' = IF pc' = "c_save" THEN "connect" ELSE rpc
    /\ UNCHANGED <<nsub, req, rloc, db, trace, returns, audit, files, modelExtra, parser, threads>>

\* lines 315-354: totals, the audit helper and the COMPLETED update with result
C_Completed ==
    /\ pc = "c_complete"
    /\ DoUpdate([NoUpd EXCEPT !.status = "completed", !.message = "Flujo de caja subido exitosamente",
                              !.progress = 100,
                              !.result = [tag |-> "flujo_caja",
                                          ids_encabezados |-> loc.result.ids_encabezados,
                                          total_encabezados |-> Len(loc.result.ids_encabezados),
                                          total_detalles |->
                                              SeqSum([g \in DOMAIN loc.grupos |->
                                                        Len(loc.grupos[g].detalles)])]],
                "cleanup", "c_except")
    /\ UNCHANGED <<nsub, req, repoVars, audit, files, modelExtra, parser, threads>>

\* lines 356-377
C_Failed ==
    /\ pc = "c_ffail"
    /\ DoUpdate([NoUpd EXCEPT !.status = "failed",
                              !.message = "Error al guardar en base de datos",
                              !.progress = 100, !.errors = loc.result.errors],
                "cleanup", "c_except")
    /\ UNCHANGED <<nsub, req, repoVars, audit, files, modelExtra, parser, threads>>

\* lines 379-401: the except block of the service
C_ExceptFailed ==
    /\ pc = "c_except"
    /\ DoUpdate([NoUpd EXCEPT !.status = "failed", !.message = "Error inesperado",
                              !.progress = 100, !.errors = << Err(loc.exc) >>],
                "cleanup", "t_except")
    /\ UNCHANGED <<nsub, req, repoVars, audit, files, modelExtra, parser, threads>>

----------------------------------------------------------------------------
(* Cash-flow persistence: FlujoCajaRepository.subir_flujo_caja_secuencial
   (app/repositories/flujo_caja_repository.py:189-277) *)

FlujoResult(success, kind, errors, ids) ==
    [success |-> success, kind |-> kind, errors |-> errors, ids_encabezados |-> ids]

\* headers and details a statement on the call's connection sees
VisibleEncabezados(d) == d.encabezados \o d.tx_encabezados

VisibleDetalles(d) == d.detalles \o d.tx_detalles

\* the id the stored procedure returns for a new header
NextId(d) == Len(VisibleEncabezados(d)) + 1

\* validar_saldos (lines 133-187) once its query has returned.  Amounts are
\* in cents.  The comparison is made on floats (lines 164-173): a gap of two
\* cents or more always exceeds 0.01, no gap never does, and a gap of exactly
\* one cent exceeds it when the subtraction rounds up; of the one-cent gaps
\* the model's amounts can form, float(100.00) - float(99.99) =
\* 0.010000000000005116 does and float(5.00) - float(4.99) =
\* 0.009999999999999787 does not.
validar_saldos(d, id_encabezado) ==
    LET enc == SelectSeq(VisibleEncabezados(d), LAMBDA e : e.id = id_encabezado)
        det == SelectSeq(VisibleDetalles(d), LAMBDA x : x.id_encabezado = id_encabezado)
        debito_det == SeqSum([k \in DOMAIN det |-> det[k].debito])
        credito_det == SeqSum([k \in DOMAIN det |-> det[k].credito])
        excede(a, b) ==
            \/ Abs(a - b) > Tolerancia
            \/ Abs(a - b) = Tolerancia /\ {a, b} \in {{10000, 9999}}
    IN  IF enc = << >>
        THEN [valid |-> FALSE, msg |-> "No se encontró el encabezado para validar"]
        ELSE IF excede(enc[1].debito, debito_det)
        THEN [valid |-> FALSE, msg |-> "Los débitos no coinciden"]
        ELSE IF excede(enc[1].credito, credito_det)
        THEN [valid |-> FALSE, msg |-> "Los créditos no coinciden"]
        ELSE [valid |-> TRUE, msg |-> "Validación exitosa"]

\* lines 215-216: the connection is opened with autocommit off, so the first
\* statement on it opens the transaction
F_Connect ==
    /\ pc = "c_save" /\ rpc = "connect"
    /\ \/ /\ db' = [db EXCEPT !.conn = "open", !.in_tx = TRUE]
          /\ Log(Ev("begin", TRUE))
          /\ rpc' = IF loc.grupos = << >> THEN "commit" ELSE "encabezado"
          /\ rloc' = rloc
       \/ /\ ToHandler("E_db")
          /\ UNCHANGED <<db, trace>>
    /\ UNCHANGED <<workerVars, pc, loc, returns>>

\* variant: the group is validated right after its header, before its details
F_Encabezado_ValidatesFirst ==
    /\ pc = "c_save" /\ rpc = "encabezado"
    /\ LET g == loc.grupos[rloc.i]
           stored == [db EXCEPT !.tx_encabezados =
                        Append(@, [id |-> NextId(db), sub |-> nsub,
                                   debito |-> g.encabezado.debito,
                                   credito |-> g.encabezado.credito])]
       IN  \/ /\ db' = stored
              /\ Log(Ev("insert", TRUE))
              /\ rloc' = [rloc EXCEPT !.id_encabezado = NextId(db),
                                      !.ids_encabezados = Append(@, NextId(db)),
                                      !.d = 1]
              /\ rpc' = "validar"
           \/ /\ db' \in {db, stored}
              /\ Log(Ev("insert", FALSE))
              /\ ToHandler("E_insert")
    /\ UNCHANGED <<workerVars, pc, loc, returns>>

\* lines 224-236 and insertar_encabezado: the header row is stored and its id
\* returned, or the statement raises, or it returns no id (raise at line 56)
F_Encabezado ==
    /\ pc = "c_save" /\ rpc = "encabezado"
    /\ LET g == loc.grupos[rloc.i]
           stored == [db EXCEPT !.tx_encabezados =
                        Append(@, [id |-> NextId(db), sub |-> nsub,
                                   debito |-> g.encabezado.debito,
                                   credito |-> g.encabezado.credito])]
       IN  \/ /\ db' = stored
              /\ Log(Ev("insert", TRUE))
              /\ rloc' = [rloc EXCEPT !.id_encabezado = NextId(db),
                                      !.ids_encabezados = Append(@, NextId(db)),
                                      !.d = 1]
              /\ rpc' = IF g.detalles = << >> THEN "validar" ELSE "detalle"
           \/ /\ db' \in {db, stored}
              /\ Log(Ev("insert", FALSE))
              /\ ToHandler("E_insert")
    /\ UNCHANGED <<workerVars, pc, loc, returns>>

\* lines 238-256 and insertar_detalle: one detail row of the current group
F_Detalle ==
    /\ pc = "c_save" /\ rpc = "detalle"
    /\ LET g == loc.grupos[rloc.i]
       IN  \/ /\ db' = [db EXCEPT !.tx_detalles =
                            Append(@, [id_encabezado |-> rloc.id_encabezado, sub |-> nsub,
                                       debito |-> g.detalles[rloc.d].debito,
                                       credito |-> g.detalles[rloc.d].credito])]
              /\ Log(Ev("insert", TRUE))
              /\ rloc' = [rloc EXCEPT !.d = @ + 1]
              /\ rpc' = IF rloc.d = Len(g.detalles) THEN "validar" ELSE "detalle"
           \/ /\ db' = db
              /\ Log(Ev("insert", FALSE))
              /\ ToHandler("E_insert")
    /\ UNCHANGED <<workerVars, pc, loc, returns>>

\* lines 258-261: validar_saldos; a failure of its query is reported as an
\* invalid group
F_Validar ==
    /\ pc = "c_save" /\ rpc = "validar"
    /\ \E query_ok \in BOOLEAN :
        LET v == IF query_ok THEN validar_saldos(db, rloc.id_encabezado)
                 ELSE [valid |-> FALSE, msg |-> "Error al validar saldos"]
        IN  /\ Log(Ev(IF v.valid THEN "saldos_validos" ELSE "saldos_invalidos", query_ok))
            /\ IF v.valid
               THEN /\ rpc' = IF rloc.i = Len(loc.grupos) THEN "commit" ELSE "encabezado"
                    /\ rloc' = [rloc EXCEPT !.i = @ + 1]
               ELSE /\ rpc' = "rollback_validacion"
                    /\ rloc' = [rloc EXCEPT !.errors = << [msg |-> v.msg, fila |-> rloc.i] >>]
    /\ UNCHANGED <<workerVars, pc, loc, db, returns>>

\* lines 262-263
F_RollbackValidacion ==
    /\ pc = "c_save" /\ rpc = "rollback_validacion"
    /\ \/ /\ db' = Rollback(db)
          /\ Log(Ev("rollback", TRUE))
          /\ rpc' = "finally"
          /\ rloc' = [rloc EXCEPT !.result =
                        FlujoResult(FALSE, "validacion", rloc.errors, << >>)]
       \/ /\ Log(Ev("rollback", FALSE))
          /\ ToHandler("E_rollback")
          /\ db' = db
    /\ UNCHANGED <<workerVars, pc, loc, returns>>

\* lines 265-267
F_Commit ==
    /\ pc = "c_save" /\ rpc = "commit"
    /\ \/ /\ db' = Commit(db)
          /\ Log(Ev("commit", TRUE))
          /\ rpc' = "finally"
          /\ rloc' = [rloc EXCEPT !.result =
                        FlujoResult(TRUE, "ok", << >>, rloc.ids_encabezados)]
       \/ /\ Log(Ev("commit", FALSE))
          /\ ToHandler("E_db")
          /\ db' = db
    /\ UNCHANGED <<workerVars, pc, loc, returns>>

\* lines 269-273: the except block; its rollback is not guarded, so a failing
\* rollback leaves the function as an exception
F_Handler ==
    /\ pc = "c_save" /\ rpc = "handler"
    /\ \/ /\ db.conn = "none"
          /\ UNCHANGED <<db, trace>>
          /\ rloc' = [rloc EXCEPT !.result =
                        FlujoResult(FALSE, "tx_error", << Err(rloc.exc) >>, << >>)]
       \/ /\ db.conn = "open"
          /\ db' = Rollback(db)
          /\ Log(Ev("rollback", TRUE))
          /\ rloc' = [rloc EXCEPT !.result =
                        FlujoResult(FALSE, "tx_error", << Err(rloc.exc) >>, << >>)]
       \/ /\ db.conn = "open"
          /\ db' = db
          /\ Log(Ev("rollback", FALSE))
          /\ rloc' = [rloc EXCEPT !.result =
                        FlujoResult(FALSE, "raised", << Err("E_rollback") >>, << >>)]
    /\ rpc' = "finally"
    /\ UNCHANGED <<workerVars, pc, loc, returns>>

\* variant: the finally block returns without closing the connection
F_Finally_LeavesOpen ==
    /\ pc = "c_save" /\ rpc = "finally"
    /\ IF db.conn = "open"
       THEN UNCHANGED <<db, trace>>
       ELSE UNCHANGED <<db, trace>>
    /\ rpc' = "idle"
    /\ rloc' = InitRloc
    /\ IF rloc.result.kind = "raised"
       THEN /\ Raise("E_rollback", "c_except")
            /\ returns' = [returns EXCEPT ![nsub] =
                              [returned |-> TRUE, raised |-> TRUE, result |-> NoReturn]]
       ELSE /\ pc' = IF rloc.result.success THEN "c_complete" ELSE "c_ffail"
            /\ loc' = [loc EXCEPT !.result = rloc.result]
            /\ returns' = [returns EXCEPT ![nsub] =
                              [returned |-> TRUE, raised |-> FALSE, result |-> rloc.result]]
    /\ UNCHANGED workerVars

\* lines 275-277, then the return (or the exception) reaches the worker
F_Finally ==
    /\ pc = "c_save" /\ rpc = "finally"
    /\ IF db.conn = "open"
       THEN db' = Close(db) /\ Log(Ev("close", TRUE))
       ELSE UNCHANGED <<db, trace>>
    /\ rpc' = "idle"
    /\ rloc' = InitRloc
    /\ IF rloc.result.kind = "raised"
       THEN /\ Raise("E_rollback", "c_except")
            /\ returns' = [returns EXCEPT ![nsub] =
                              [returned |-> TRUE, raised |-> TRUE, result |-> NoReturn]]
       ELSE /\ pc' = IF rloc.result.success THEN "c_complete" ELSE "c_ffail"
            /\ loc' = [loc EXCEPT !.result = rloc.result]
            /\ returns' = [returns EXCEPT ![nsub] =
                              [returned |-> TRUE, raised |-> FALSE, result |-> rloc.result]]
    /\ UNCHANGED workerVars

BalanceWorker ==
    \/ B_Processing \/ B_Parse \/ B_Parsed \/ B_Validating \/ B_Validate
    \/ B_ValidationLog \/ B_ValidationFailed \/ B_Saving \/ B_Lookup
    \/ B_FailureLog \/ B_Failed \/ B_Outcome \/ B_Completed
    \/ B_ExceptLog \/ B_ExceptFailed

BalancePersistence ==
    \/ BG_Connect \/ BG_Cliente \/ BG_Begin \/ BG_Insert \/ BG_RollbackInsert
    \/ BG_RollbackCliente \/ BG_Totales \/ BG_Clase \/ BG_Ecuacion \/ BG_Errores
    \/ BG_Commit \/ BG_Handler \/ BG_Finally

FlujoWorker ==
    \/ C_Processing \/ C_Parse \/ C_Parsed \/ C_Validate \/ C_ValidationFailed
    \/ C_Saving \/ C_Completed \/ C_Failed \/ C_ExceptFailed

FlujoPersistence ==
    \/ F_Connect \/ F_Encabezado \/ F_Detalle \/ F_Validar
    \/ F_RollbackValidacion \/ F_Commit \/ F_Handler \/ F_Finally

Next ==
    \/ Submit
    \/ BalanceWorker
    \/ BalancePersistence
    \/ FlujoWorker
    \/ FlujoPersistence
    \/ T_ExceptFailed
    \/ T_Cleanup

Spec == Init /\ [][Next]_vars

\* the steps of a started worker thread; the request handler (Submit) is the
\* only step that waits for the outside world
Step ==
    \/ BalanceWorker \/ BalancePersistence \/ FlujoWorker \/ FlujoPersistence
    \/ T_ExceptFailed \/ T_Cleanup

\* a started thread keeps running: each of its steps terminates
LiveSpec == Spec /\ WF_vars(Step)

----------------------------------------------------------------------------
(* The two sheet parsers, row by row:
   ExcelService.process_excel_file (app/services/excel_service.py:199-263) and
   FlujoCajaService.procesar_excel_secuencial
   (app/services/flujo_caja_service.py:109-167).
   A sheet is the sequence of data rows that pd.read_excel(skiprows=7)
   returns; a cell is NaN (empty in the workbook), text made of spaces only,
   or a value. *)

MaxSheet == 3

\* pd.read_excel(..., skiprows=7): seven rows are skipped, the eighth holds the
\* column names, and the data row with index 0 is the ninth row of the workbook
SkipRows == 7

\* "Error en fila {idx + 8}", idx being the 0-based index of the data row
FilaBalance == 8

\* "Se encontró un detalle (fila {idx + 2}) sin encabezado previo"
FilaFlujo == 2

NaN == "NaN"

Espacios == "  "

notna(v) == v # NaN

\* str(value): NaN becomes the text "nan"
str(v) == IF v = NaN THEN "nan" ELSE v

strip(v) == IF v = Espacios THEN "" ELSE v

key_fields == {"nivel", "codigo", "nombre"}

is_empty_row(row) ==
    \A field \in key_fields : ~(notna(row[field]) /\ strip(str(row[field])) # "")

clean_string_value(v) == IF v = NaN \/ str(v) = "nan" THEN "" ELSE strip(str(v))

\* str(int(float(value))) raises on NaN and on text that is not a number
codigo_raises(v) == v = NaN \/ strip(v) = ""

\* the BalanceGeneralRow built at lines 235-247; its validator maps "Si" to
\* "Sí" and anything that is not "Sí", "Si" or "No" to "No"
BalanceRowOf(row, i) ==
    LET transaccional_raw == clean_string_value(row.transaccional)
        transaccional == IF transaccional_raw \in {"Sí", "Si", "No"}
                         THEN transaccional_raw ELSE "No"
    IN  [fila |-> i, nivel |-> clean_string_value(row.nivel), codigo |-> row.codigo,
         nombre |-> clean_string_value(row.nombre),
         transaccional |-> IF transaccional = "Si" THEN "Sí" ELSE transaccional]

FilaActivo == [nivel |-> "1", codigo |-> "1", nombre |-> "Activo", transaccional |-> "Si"]

FilaVacia == [nivel |-> NaN, codigo |-> NaN, nombre |-> NaN, transaccional |-> NaN]

FilaEspacios ==
    [nivel |-> Espacios, codigo |-> NaN, nombre |-> Espacios, transaccional |-> Espacios]

FilaSinNivel ==
    [nivel |-> NaN, codigo |-> "3", nombre |-> "Patrimonio", transaccional |-> "Tal vez"]

FilaSinCodigo ==
    [nivel |-> "2", codigo |-> NaN, nombre |-> "Pasivo", transaccional |-> NaN]

BalanceFilas == {FilaActivo, FilaVacia, FilaEspacios, FilaSinNivel, FilaSinCodigo}

Sheets(filas) == UNION { [1..n -> filas] : n \in 0..MaxSheet }

ParserStart(kind, sheet) ==
    [kind |-> kind, sheet |-> sheet, idx |-> 1, pc |-> "loop",
     rows |-> << >>, grupos |-> << >>, grupo_actual |-> << >>,
     error_fila |-> 0,
     fecha |-> FechaCarga, cliente |-> "900123456",
     id |-> 0, u |-> NoUpd,
     validacion |-> [valid |-> FALSE, msg |-> "", grupo |-> -1]]

mainVars == <<jobs, clock, nsub, req, pc, loc, rpc, rloc, db, trace, returns,
              audit, files, modelExtra, threads>>

\* variant: a row with blank key cells is skipped and the loop goes on
P_BalanceRow_SkipsBlank ==
    /\ parser.kind = "balance" /\ parser.pc = "loop"
    /\ parser.idx <= Len(parser.sheet)
    /\ LET row == parser.sheet[parser.idx]
       IN  parser' =
             IF is_empty_row(row) THEN [parser EXCEPT !.idx = @ + 1]
             ELSE IF codigo_raises(row.codigo)
             THEN [parser EXCEPT !.pc = "raised",
                                 !.error_fila = (parser.idx - 1) + FilaBalance]
             ELSE [parser EXCEPT !.rows = Append(@, BalanceRowOf(row, parser.idx)),
                                 !.idx = @ + 1]
    /\ UNCHANGED mainVars

\* one iteration of the loop at lines 224-250
P_BalanceRow ==
    /\ parser.kind = "balance" /\ parser.pc = "loop"
    /\ parser.idx <= Len(parser.sheet)
    /\ LET row == parser.sheet[parser.idx]
       IN  parser' =
             IF is_empty_row(row) THEN [parser EXCEPT !.pc = "after_loop"]
             ELSE IF codigo_raises(row.codigo)
             THEN [parser EXCEPT !.pc = "raised",
                                 !.error_fila = (parser.idx - 1) + FilaBalance]
             ELSE [parser EXCEPT !.rows = Append(@, BalanceRowOf(row, parser.idx)),
                                 !.idx = @ + 1]
    /\ UNCHANGED mainVars

\* lines 252-260: no rows is an error, otherwise the rows are returned
P_BalanceEnd ==
    /\ parser.kind = "balance"
    /\ \/ parser.pc = "after_loop"
       \/ parser.pc = "loop" /\ parser.idx > Len(parser.sheet)
    /\ parser' = [parser EXCEPT !.pc = IF parser.rows = << >> THEN "raised" ELSE "returned"]
    /\ UNCHANGED mainVars

FlujoVacia == [codigo |-> NaN, comprobante |-> NaN, secuencia |-> NaN]

FlujoEncabezado ==
    [codigo |-> "Cuenta contable: 1105", comprobante |-> NaN, secuencia |-> NaN]

FlujoEncabezadoEspacios ==
    [codigo |-> "1110", comprobante |-> Espacios, secuencia |-> Espacios]

FlujoSinPrefijo == [codigo |-> "1120", comprobante |-> NaN, secuencia |-> NaN]

FlujoDetalle == [codigo |-> "11050501", comprobante |-> "CC-1", secuencia |-> "1"]

\* the last two rows carry a code cell of blanks only: a header and a detail
FlujoFilas ==
    {FlujoVacia, FlujoEncabezado, FlujoEncabezadoEspacios, FlujoSinPrefijo, FlujoDetalle,
     [codigo |-> Espacios, comprobante |-> Espacios, secuencia |-> Espacios],
     [codigo |-> Espacios, comprobante |-> "CC-1", secuencia |-> "1"]}

\* codigo_contable.lower().startswith("cuenta contable:")
ConPrefijoCuenta == {"Cuenta contable: 1105"}

\* fila.isna().all()
isna_all(fila) == \A campo \in DOMAIN fila : fila[campo] = NaN

es_fila_encabezado(fila) ==
    LET comprobante == strip(str(fila.comprobante))
        secuencia == strip(str(fila.secuencia))
        codigo_contable == strip(str(fila.codigo))
    IN  IF codigo_contable \in ConPrefijoCuenta THEN TRUE
        ELSE comprobante = "" /\ secuencia = ""

procesar_encabezado(fila, i) == [fila |-> i, codigo_contable |-> strip(str(fila.codigo))]

procesar_detalle(fila, i) ==
    [fila |-> i, codigo_contable |-> strip(str(fila.codigo)),
     comprobante |-> strip(str(fila.comprobante))]

\* variant: a detail row with no open group is skipped
P_FlujoRow_DropsOrphan ==
    /\ parser.kind = "flujo_caja" /\ parser.pc = "loop"
    /\ parser.idx <= Len(parser.sheet)
    /\ LET fila == parser.sheet[parser.idx]
           i == parser.idx
       IN  parser' =
             IF isna_all(fila) THEN [parser EXCEPT !.pc = "after_loop"]
             ELSE IF es_fila_encabezado(fila)
             THEN [parser EXCEPT
                     !.grupos = @ \o parser.grupo_actual,
                     !.grupo_actual = << [encabezado |-> procesar_encabezado(fila, i),
                                          detalles |-> << >>] >>,
                     !.idx = @ + 1]
             ELSE IF parser.grupo_actual = << >> THEN [parser EXCEPT !.idx = @ + 1]
             ELSE [parser EXCEPT
                     !.grupo_actual[1].detalles = Append(@, procesar_detalle(fila, i)),
                     !.idx = @ + 1]
    /\ UNCHANGED mainVars

\* variant: a detail row is appended to the open group twice
P_FlujoRow_AppendsTwice ==
    /\ parser.kind = "flujo_caja" /\ parser.pc = "loop"
    /\ parser.idx <= Len(parser.sheet)
    /\ LET fila == parser.sheet[parser.idx]
           i == parser.idx
       IN  parser' =
             IF isna_all(fila) THEN [parser EXCEPT !.pc = "after_loop"]
             ELSE IF es_fila_encabezado(fila)
             THEN [parser EXCEPT
                     !.grupos = @ \o parser.grupo_actual,
                     !.grupo_actual = << [encabezado |-> procesar_encabezado(fila, i),
                                          detalles |-> << >>] >>,
                     !.idx = @ + 1]
             ELSE IF parser.grupo_actual = << >>
             THEN [parser EXCEPT !.pc = "raised",
                                 !.error_fila = (parser.idx - 1) + FilaFlujo]
             ELSE [parser EXCEPT
                     !.grupo_actual[1].detalles = Append(Append(@, procesar_detalle(fila, i)), procesar_detalle(fila, i)),
                     !.idx = @ + 1]
    /\ UNCHANGED mainVars

\* one iteration of the loop at lines 137-159
P_FlujoRow ==
    /\ parser.kind = "flujo_caja" /\ parser.pc = "loop"
    /\ parser.idx <= Len(parser.sheet)
    /\ LET fila == parser.sheet[parser.idx]
           i == parser.idx
       IN  parser' =
             IF isna_all(fila) THEN [parser EXCEPT !.pc = "after_loop"]
             ELSE IF es_fila_encabezado(fila)
             THEN [parser EXCEPT
                     !.grupos = @ \o parser.grupo_actual,
                     !.grupo_actual = << [encabezado |-> procesar_encabezado(fila, i),
                                          detalles |-> << >>] >>,
                     !.idx = @ + 1]
             ELSE IF parser.grupo_actual = << >>
             THEN [parser EXCEPT !.pc = "raised",
                                 !.error_fila = (parser.idx - 1) + FilaFlujo]
             ELSE [parser EXCEPT
                     !.grupo_actual[1].detalles = Append(@, procesar_detalle(fila, i)),
                     !.idx = @ + 1]
    /\ UNCHANGED mainVars

\* variant: the walk ends without appending the group that is still open
P_FlujoEnd_NoFlush ==
    /\ parser.kind = "flujo_caja"
    /\ \/ parser.pc = "after_loop"
       \/ parser.pc = "loop" /\ parser.idx > Len(parser.sheet)
    /\ parser' = [parser EXCEPT !.grupos = @,
                                !.grupo_actual = << >>,
                                !.pc = "returned"]
    /\ UNCHANGED mainVars

\* lines 161-164: the last open group is appended and the groups are returned
P_FlujoEnd ==
    /\ parser.kind = "flujo_caja"
    /\ \/ parser.pc = "after_loop"
       \/ parser.pc = "loop" /\ parser.idx > Len(parser.sheet)
    /\ parser' = [parser EXCEPT !.grupos = @ \o parser.grupo_actual,
                                !.grupo_actual = << >>,
                                !.pc = "returned"]
    /\ UNCHANGED mainVars

\* es_valido, mensaje = self.validar_grupos(grupos), the statement of the
\* upload that follows the parse
P_Validar ==
    /\ parser.kind = "flujo_caja" /\ parser.pc = "returned"
    /\ parser.validacion.grupo = -1
    /\ parser' = [parser EXCEPT !.validacion = validar_grupos(parser.grupos)]
    /\ UNCHANGED mainVars

\* validation = self.validate_data(rows, fecha, identificacion_cliente)
P_ValidateData ==
    /\ parser.kind = "validate_data" /\ parser.pc = "loop"
    /\ parser' = [parser EXCEPT
                     !.validacion = validate_data(parser.rows, parser.fecha, parser.cliente),
                     !.pc = "returned"]
    /\ UNCHANGED mainVars

\* es_valido, mensaje = self.validar_saldos(conn, id_encabezado) on a header
\* and details already stored in the open transaction; a query that raises
\* is answered in the except clause (lines 183-185)
P_ValidarSaldos ==
    /\ parser.kind = "validar_saldos" /\ parser.pc = "loop"
    /\ \E query_ok \in BOOLEAN :
        parser' = [parser EXCEPT
                     !.validacion =
                         IF query_ok THEN validar_saldos(db, 1)
                         ELSE [valid |-> FALSE, msg |-> "Error al validar saldos"],
                     !.pc = "returned"]
    /\ UNCHANGED mainVars

\* details stored under the header whose balances are validated
MaxDetalles == 2

\* rows of one client and date in dbo.BalanceGeneral when the discrepancy
\* query runs
MaxTabla == 103

\* errores_ecuacion_list = self.get_errores_ecuacion(fecha, id_cliente,
\* cursor=cursor) on the rows the open transaction sees
P_ErroresEcuacion ==
    /\ parser.kind = "get_errores_ecuacion" /\ parser.pc = "loop"
    /\ parser' = [parser EXCEPT
                     !.rows = get_errores_ecuacion(Visible(db), FechaCarga,
                                                   Clientes["900123456"]),
                     !.pc = "returned"]
    /\ UNCHANGED mainVars

\* one call job_manager.update_job(job_id, ...) with the arguments held in
\* parser.u; a field left at its default of None is "nil"
P_UpdateJob ==
    /\ parser.kind = "update_job" /\ parser.pc = "loop"
    /\ jobs' = update_job(jobs, parser.id, parser.u, clock)
    /\ clock' = clock + 1
    /\ parser' = [parser EXCEPT !.pc = IF update_job_raises(jobs, parser.id, parser.u)
                                       THEN "raised" ELSE "returned"]
    /\ UNCHANGED <<nsub, req, pc, loc, rpc, rloc, db, trace, returns, audit, files,
                   modelExtra, threads>>

ParserInit ==
    /\ nsub = 0
    /\ req = NoRequest
    /\ pc = "idle"
    /\ loc = InitLoc
    /\ rpc = "idle"
    /\ rloc = InitRloc
    /\ trace = << >>
    /\ returns = [j \in 1..MaxSubmissions |-> NoReturn]
    /\ audit = << >>
    /\ files = { }
    /\ threads = NoThreads
    /\ \/ /\ db = InitDb
          /\ jobs = [j \in 1..MaxSubmissions |-> NoJob]
          /\ clock = 0
          /\ modelExtra = "allow"
          /\ parser \in { ParserStart("balance", sh) : sh \in Sheets(BalanceFilas) }
                \cup { ParserStart("flujo_caja", sh) : sh \in Sheets(FlujoFilas) }
                \cup { [ParserStart("validate_data", << >>) EXCEPT
                           !.rows = r, !.fecha = f, !.cliente = c] :
                         r \in UNION { [1..n ->
                                 { [RowActivo EXCEPT !.nivel = nv, !.codigo = cd, !.nombre = nm] :
                                     nv \in {"", RowActivo.nivel},
                                     cd \in {<< >>, RowActivo.codigo},
                                     nm \in {"", RowActivo.nombre} }] : n \in 0..MaxRows },
                         f \in {"20240630", "2024063", "2024063a", "2024-06-30", ""},
                         c \in {"900123456", "  ", ""} }
       \/ /\ parser = ParserStart("validar_saldos", << >>)
          /\ jobs = [j \in 1..MaxSubmissions |-> NoJob]
          /\ clock = 0
          /\ modelExtra = "allow"
          /\ db \in { [InitDb EXCEPT
                          !.tx_encabezados = << [id |-> 1, sub |-> 1, debito |-> hd,
                                                 credito |-> hc] >>,
                          !.tx_detalles = [k \in DOMAIN ds |->
                                             [id_encabezado |-> 1, sub |-> 1,
                                              debito |-> ds[k][1], credito |-> ds[k][2]]],
                          !.in_tx = TRUE] :
                        hd \in {500, 10000}, hc \in {0, 10000},
                        ds \in UNION { [1..n -> {0, 499, 9999, 10000} \X {0, 9999, 10000}] :
                                         n \in 0..MaxDetalles } }
       \/ /\ db = InitDb
          /\ clock = 2
          /\ modelExtra \in {"ignore", "allow"}
          /\ \E started \in BOOLEAN :
                jobs = [j \in 1..MaxSubmissions |->
                          IF j # 1 THEN NoJob
                          ELSE IF started
                          THEN update_job_record(create_job(0),
                                   [NoUpd EXCEPT !.status = "processing",
                                                 !.message = "Leyendo archivo Excel...",
                                                 !.progress = 10], 1)
                          ELSE create_job(0)]
          /\ parser \in
                { [ParserStart("update_job", << >>) EXCEPT !.id = id, !.u = u] :
                    id \in 1..MaxSubmissions,
                    u \in [status : {"nil", "processing", "completed"},
                           message : {"nil", "", "Guardando..."},
                           progress : {Nil, 0, 50},
                           total_rows : {Nil, 3},
                           processed_rows : {Nil, 0},
                           errors : {NilErrors, << >>, << Err("Fila 8: Nivel es requerido") >>},
                           result : {NoResult,
                                     [tag |-> "flujo_caja", ids_encabezados |-> << 1 >>,
                                      total_encabezados |-> 1, total_detalles |-> 2]}] }
       \/ /\ parser = ParserStart("get_errores_ecuacion", << >>)
          /\ jobs = [j \in 1..MaxSubmissions |-> NoJob]
          /\ clock = 0
          /\ modelExtra = "allow"
          /\ \E n \in {0, 1, 2, 3, TopErrores, TopErrores + 1, MaxTabla}, p \in 1..4 :
                LET dif(i) == CASE p = 1 -> i
                                [] p = 2 -> n + 1 - i
                                [] p = 3 -> (i * 7) % 5
                                [] p = 4 -> 0 - 2 * (i % 3)
                    fila(i) == [RowDescuadre EXCEPT !.saldo_inicial = 0, !.debito = i,
                                                    !.credito = 0, !.saldo_final = i + dif(i)]
                IN  db = [InitDb EXCEPT
                            !.balance = << StoredRow(1, "999", RowDescuadre) >>,
                            !.tx_balance = [i \in 1..n |-> StoredRow(2, "900123456", fila(i))],
                            !.in_tx = TRUE]

ParserNext ==
    \/ P_BalanceRow
    \/ P_BalanceEnd
    \/ P_FlujoRow
    \/ P_FlujoEnd
    \/ P_Validar
    \/ P_ValidateData
    \/ P_ValidarSaldos
    \/ P_UpdateJob
    \/ P_ErroresEcuacion

ParserSpec == ParserInit /\ [][ParserNext]_vars

----------------------------------------------------------------------------
(* The job registry under concurrent callers: JobManager
   (app/utils/job_manager.py:7-81).  The registry is a plain dict shared by
   the request handlers and the worker threads, with no lock; a thread can be
   pre-empted between any two statements of a method.  Job ids are fresh
   (uuid4), so an id is created once. *)

NThreads == 2

MaxCalls == 2

Threads == 1..NThreads

\* per thread: the call in flight, how it ended, and the record the thread's own
\* job would hold had only this thread ever touched it
IdleThread ==
    [op |-> "none", id |-> 0, u |-> NoUpd, pc |-> "none", raised |-> "none",
     calls |-> 0, mine |-> 0, alone |-> NoJob, touched |-> { }]

RegUpdates ==
    { [NoUpd EXCEPT !.status = "processing", !.message = "Leyendo archivo Excel...",
                    !.progress = 10],
      [NoUpd EXCEPT !.status = "completed", !.message = "EXITOSO", !.progress = 100,
                    !.processed_rows = 1, !.errors = << >>] }

workVars == <<req, pc, loc, rpc, rloc, db, trace, returns, audit, files,
              modelExtra, parser>>

CanCall(t) ==
    /\ threads[t].op = "none" /\ threads[t].raised = "none"
    /\ threads[t].calls < MaxCalls

Return(t) == [threads[t] EXCEPT !.op = "none", !.pc = "none", !.calls = @ + 1]

\* variant: create_job replaces the whole dict by one holding only the new job
R_Create_Replaces(t) ==
    /\ CanCall(t) /\ threads[t].mine = 0 /\ nsub < MaxSubmissions
    /\ jobs' = [j \in 1..MaxSubmissions |->
                  IF j = nsub + 1 THEN create_job(clock) ELSE NoJob]
    /\ nsub' = nsub + 1
    /\ clock' = clock + 1
    /\ threads' = [threads EXCEPT ![t] = [@ EXCEPT !.calls = @ + 1, !.mine = nsub + 1,
                                             !.alone = create_job(clock)]]
    /\ UNCHANGED workVars

\* create_job, lines 11-29: one dict assignment
R_Create(t) ==
    /\ CanCall(t) /\ threads[t].mine = 0 /\ nsub < MaxSubmissions
    /\ jobs' = [jobs EXCEPT ![nsub + 1] = create_job(clock)]
    /\ nsub' = nsub + 1
    /\ clock' = clock + 1
    /\ threads' = [threads EXCEPT ![t] = [@ EXCEPT !.calls = @ + 1, !.mine = nsub + 1,
                                             !.alone = create_job(clock)]]
    /\ UNCHANGED workVars

\* get_job, lines 74-76: self.jobs.get(job_id)
R_Get(t) ==
    /\ CanCall(t)
    /\ \E id \in 1..nsub : threads' = [threads EXCEPT ![t] = [Return(t) EXCEPT !.id = id]]
    /\ UNCHANGED <<jobs, clock, nsub, workVars>>

\* a thread enters update_job or delete_job
R_Enter(t) ==
    /\ CanCall(t)
    /\ \E id \in 1..nsub, op \in {"update_job", "delete_job"}, u \in RegUpdates :
        /\ op = "delete_job" => u = CHOOSE x \in RegUpdates : TRUE
        /\ threads' = [threads EXCEPT ![t] =
                          [@ EXCEPT !.op = op, !.id = id, !.u = u, !.pc = "check",
                                    !.touched = @ \cup {id}]]
    /\ UNCHANGED <<jobs, clock, nsub, workVars>>

\* update_job, lines 43-44: if job_id not in self.jobs: return None
R_UpdateCheck(t) ==
    /\ threads[t].op = "update_job" /\ threads[t].pc = "check"
    /\ threads' = [threads EXCEPT ![t] =
                      IF jobs[threads[t].id] = NoJob THEN Return(t)
                      ELSE [@ EXCEPT !.pc = "lookup"]]
    /\ UNCHANGED <<jobs, clock, nsub, workVars>>

\* update_job, line 46: job = self.jobs[job_id]
R_UpdateLookup(t) ==
    /\ threads[t].op = "update_job" /\ threads[t].pc = "lookup"
    /\ threads' = [threads EXCEPT ![t] =
                      IF jobs[threads[t].id] = NoJob
                      THEN [@ EXCEPT !.op = "none", !.pc = "none", !.raised = "KeyError"]
                      ELSE [@ EXCEPT !.pc = "assign"]]
    /\ UNCHANGED <<jobs, clock, nsub, workVars>>

\* update_job, lines 48-72, on the object the thread holds; an object that was
\* deleted meanwhile is no longer in the dict
R_UpdateAssign(t) ==
    /\ threads[t].op = "update_job" /\ threads[t].pc = "assign"
    /\ LET id == threads[t].id
           u == threads[t].u
       IN  /\ jobs' = IF jobs[id] = NoJob THEN jobs
                      ELSE [jobs EXCEPT ![id] = update_job_record(@, u, clock)]
           /\ threads' = [threads EXCEPT ![t] =
                 [Return(t) EXCEPT !.alone =
                     IF id = threads[t].mine /\ threads[t].alone # NoJob
                     THEN update_job_record(threads[t].alone, u, clock) ELSE @]]
    /\ clock' = clock + 1
    /\ UNCHANGED <<nsub, workVars>>

\* delete_job, line 80: if job_id in self.jobs
R_DeleteCheck(t) ==
    /\ threads[t].op = "delete_job" /\ threads[t].pc = "check"
    /\ threads' = [threads EXCEPT ![t] =
                      IF jobs[threads[t].id] = NoJob THEN Return(t)
                      ELSE [@ EXCEPT !.pc = "del"]]
    /\ UNCHANGED <<jobs, clock, nsub, workVars>>

\* delete_job, line 81: del self.jobs[job_id]
R_DeleteDel(t) ==
    /\ threads[t].op = "delete_job" /\ threads[t].pc = "del"
    /\ LET id == threads[t].id
       IN  IF jobs[id] = NoJob
           THEN /\ threads' = [threads EXCEPT ![t] =
                       [@ EXCEPT !.op = "none", !.pc = "none", !.raised = "KeyError"]]
                /\ jobs' = jobs
           ELSE /\ jobs' = [jobs EXCEPT ![id] = NoJob]
                /\ threads' = [threads EXCEPT ![t] =
                       [Return(t) EXCEPT !.alone = IF id = threads[t].mine THEN NoJob ELSE @]]
    /\ UNCHANGED <<clock, nsub, workVars>>

RegistryInit ==
    /\ jobs = [j \in 1..MaxSubmissions |-> NoJob]
    /\ clock = 0
    /\ nsub = 0
    /\ req = NoRequest
    /\ pc = "idle"
    /\ loc = InitLoc
    /\ rpc = "idle"
    /\ rloc = InitRloc
    /\ db = InitDb
    /\ trace = << >>
    /\ returns = [j \in 1..MaxSubmissions |-> NoReturn]
    /\ audit = << >>
    /\ files = { }
    /\ modelExtra = "allow"
    /\ parser = NoParser
    /\ threads = [t \in Threads |-> IdleThread]

RegistryNext ==
    \E t \in Threads :
        \/ R_Create(t)
        \/ R_Get(t)
        \/ R_Enter(t)
        \/ R_UpdateCheck(t)
        \/ R_UpdateLookup(t)
        \/ R_UpdateAssign(t)
        \/ R_DeleteCheck(t)
        \/ R_DeleteDel(t)

RegistrySpec == RegistryInit /\ [][RegistryNext]_vars

----------------------------------------------------------------------------
(* Properties *)

Has(op, ok) == \E k \in DOMAIN trace : trace[k] = Ev(op, ok)

Issued(op) == \E k \in DOMAIN trace : trace[k].op = op

Queries == {"totales_generales", "totales_por_clase", "ecuacion_contable",
            "errores_ecuacion"}

\* the balance persistence call of the current submission has returned a result
BalanceReturned ==
    req.kind = "balance" /\ returns[nsub].returned /\ ~returns[nsub].raised

\* the cash-flow persistence call of the current submission has ended
FlujoEnded == req.kind = "flujo_caja" /\ returns[nsub].returned

\* rows of submission n that are permanently in dbo.BalanceGeneral
CommittedOf(n) == SelectSeq(db.balance, LAMBDA x : x.sub = n)

AllRowsOf(n) == [i \in DOMAIN loc.rows |-> StoredRow(n, req.cliente, loc.rows[i])]

\* C1: save_with_transaction_and_validations is all-or-nothing.  While the
\* call runs and after it raised, none of the submission's rows are committed;
\* when it returns, either success = True and all len(rows) rows are committed,
\* or success = False, rows_inserted = 0 and none is committed.
C1_AllOrNothing ==
    req.kind = "balance" =>
        /\ CommittedOf(nsub) \in {<< >>, AllRowsOf(nsub)}
        /\ BalanceReturned =>
            /\ db.tx_balance = << >>
            /\ IF returns[nsub].result.success
               THEN /\ returns[nsub].result.rows_inserted = Len(loc.rows)
                    /\ CommittedOf(nsub) = AllRowsOf(nsub)
               ELSE /\ returns[nsub].result.rows_inserted = 0
                    /\ CommittedOf(nsub) = << >>

\* a failure returned after some rows had been inserted and a later one failed
C1_Witness ==
    /\ BalanceReturned
    /\ ~returns[nsub].result.success
    /\ Has("insert", TRUE) /\ Has("insert", FALSE)

\* C2: if the balance validation of group k fails in subir_flujo_caja_secuencial,
\* the whole transaction is rolled back, nothing is inserted after group k, no
\* commit is issued and the call returns failure with no header ids.
C2_GroupFailureReturnsFailure ==
    (FlujoEnded /\ Issued("saldos_invalidos")) =>
        /\ ~returns[nsub].raised
        /\ ~returns[nsub].result.success
        /\ returns[nsub].result.ids_encabezados = << >>
        /\ ~Issued("commit")
        /\ \A k, m \in DOMAIN trace :
              (trace[k].op = "saldos_invalidos" /\ k < m) => trace[m].op # "insert"
        /\ \A k \in DOMAIN db.encabezados : db.encabezados[k].sub # nsub
        /\ \A k \in DOMAIN db.detalles : db.detalles[k].sub # nsub
        /\ db.tx_encabezados = << >> /\ db.tx_detalles = << >>

\* C3: the first failing row insert of the balance path is followed at once by
\* a rollback, by no later insert, aggregate query or commit, and the returned
\* failure carries the error of that row.
C3_InsertFailureKeepsError ==
    (req.kind = "balance" /\ returns[nsub].returned /\ Has("insert", FALSE)) =>
        /\ ~returns[nsub].raised
        /\ ~returns[nsub].result.success
        /\ \A k \in DOMAIN trace :
              trace[k] = Ev("insert", FALSE) =>
                  /\ k < Len(trace) /\ trace[k + 1].op = "rollback"
                  /\ \A m \in DOMAIN trace :
                        m > k => trace[m].op \notin ({"insert", "commit"} \cup Queries)
        /\ \E i \in DOMAIN returns[nsub].result.errors :
              returns[nsub].result.errors[i].msg = "E_insert"

\* C4: when the client lookup yields no id, the inserted rows are rolled back,
\* no aggregate query runs, nothing is committed and the failure reports that
\* the client was not found.
C4_ClientNotFound ==
    (BalanceReturned /\ Issued("cliente_none") /\ Has("begin", TRUE)
        /\ ~Has("insert", FALSE)) =>
        /\ ~returns[nsub].result.success
        /\ returns[nsub].result.errors = << Err("Cliente no encontrado") >>
        /\ \A k \in DOMAIN trace : trace[k].op \notin ({"commit"} \cup Queries)
        /\ CommittedOf(nsub) = << >>
        /\ db.tx_balance = << >>

\* C5: row-level discrepancies never block the commit: a submission whose
\* persistence call returned success with a positive discrepancy count ends
\* Completed with the warning in its error list and outcome ADVERTENCIA.
C5_WarningStillCompleted ==
    (BalanceReturned /\ pc = "cleanup" /\ returns[nsub].result.success
        /\ returns[nsub].result.errores_ecuacion_count > 0) =>
        /\ CommittedOf(nsub) = AllRowsOf(nsub)
        /\ jobs[nsub].status = "completed"
        /\ jobs[nsub].errors # << >>
        /\ loc.estado = "ADVERTENCIA"

SameRows(m, n) ==
    [i \in DOMAIN CommittedOf(m) |->
        [CommittedOf(m)[i] EXCEPT !.sub = 0]]
    = [i \in DOMAIN CommittedOf(n) |->
        [CommittedOf(n)[i] EXCEPT !.sub = 0]]

\* C6: two successful submissions of the same row set for the same client and
\* date report identical aggregate totals.
C6_SameRowsSameTotals ==
    \A m, n \in 1..nsub :
        (m < n /\ CommittedOf(m) # << >> /\ SameRows(m, n)
            /\ returns[n].returned /\ ~returns[n].raised) =>
            returns[n].result.totales_generales = returns[m].result.totales_generales

Rank(status) ==
    CASE status = "pending" -> 0
      [] status = "processing" -> 1
      [] status = "validating" -> 2
      [] status = "saving" -> 3
      [] status \in Terminal -> 4

\* C7: job status is forward-only: every status change of a job moves strictly
\* later in the order Pending, Processing, Validating, Saving, then Completed
\* or Failed.
C7_ForwardOnly ==
    [][\A j \in 1..MaxSubmissions :
          (j <= nsub /\ jobs'[j].status # jobs[j].status) =>
              Rank(jobs'[j].status) > Rank(jobs[j].status)]_vars

\* a balance job that went through every stage
C7_Witness ==
    /\ nsub >= 1 /\ req.kind = "balance"
    /\ jobs[nsub].status = "completed"

\* C8: once a job is Completed or Failed, no later step of the worker or of the
\* thread wrapper gives it a non-terminal status.
C8_TerminalStays ==
    [][\A j \in 1..MaxSubmissions :
          (j <= nsub /\ jobs[j].status \in Terminal) =>
              jobs'[j].status \in Terminal]_vars

\* the wrapper has written Failed and its finally block is still to run
C8_Witness ==
    /\ nsub >= 1 /\ pc = "cleanup"
    /\ jobs[nsub].status = "failed"
    /\ jobs[nsub].message = "Error inesperado"

\* C9: every job whose worker thread has started ends in Completed or Failed
\* with progress 100.
C9_ReachesTerminal ==
    (pc # "idle") ~>
        (nsub >= 1 /\ jobs[nsub].status \in Terminal /\ jobs[nsub].progress = 100)

\* terminal after an exception that the service's own except block handled
C9_Witness ==
    /\ nsub >= 1 /\ pc = "cleanup"
    /\ jobs[nsub].status = "failed"
    /\ jobs[nsub].message = "Error crítico"
    /\ jobs[nsub].progress = 100

Closed == trace # << >> /\ trace[Len(trace)].op = "close"

Resolving(k) == trace[k].op \in {"commit", "rollback"}

C12_AuditFailureKeepsResult ==
    (pc = "cleanup" /\ nsub >= 1 /\ loc.verrors # << >>) =>
        /\ jobs[nsub].status = "failed"
        /\ jobs[nsub].message = IF req.kind = "balance"
                                THEN "Validación de estructura falló"
                                ELSE "Validación fallida"
        /\ jobs[nsub].errors = loc.verrors

\* C13: a balance job that ends Completed shows, to a status poll, processed_rows
\* equal to the number of submitted rows, progress 100 and a non-null result
\* payload.
C13_CompletedCarriesResult ==
    (pc = "cleanup" /\ req.kind = "balance" /\ jobs[nsub].status = "completed") =>
        /\ jobs[nsub].processed_rows = Len(req.rows)
        /\ jobs[nsub].progress = 100
        /\ jobs[nsub].result.tag # "none"

\* C14: a balance submission whose parse yields zero rows fails in the parser:
\* the worker never reaches the validator, the persistence call is never entered
\* and no database call of a transaction is made, and the job ends Failed.
C14_EmptyParseFails ==
    (nsub >= 1 /\ req.kind = "balance" /\ req.rows = << >>) =>
        /\ pc \in {"b_start", "b_parse", "b_except", "b_efail", "t_except", "cleanup"}
        /\ rpc = "idle" /\ trace = << >> /\ ~returns[nsub].returned
        /\ db.tx_balance = << >> /\ ~db.in_tx
        /\ jobs[nsub].status \in {"pending", "processing", "failed"}
        /\ (pc = "cleanup") => jobs[nsub].status = "failed"

\* the workbook was readable and held no data row; the service's except block
\* has written the terminal record
C14_Witness ==
    /\ pc = "cleanup" /\ req.kind = "balance" /\ req.parse_ok /\ req.rows = << >>
    /\ jobs[nsub].status = "failed" /\ jobs[nsub].message = "Error crítico"
    /\ jobs[nsub].errors = << Err("ValueError") >>

\* position of the first row whose three key cells are all blank, or one past
\* the last row when there is none
FirstBlank(sheet) ==
    IF \E i \in DOMAIN sheet : is_empty_row(sheet[i])
    THEN CHOOSE i \in DOMAIN sheet :
            is_empty_row(sheet[i]) /\ \A j \in 1..(i - 1) : ~is_empty_row(sheet[j])
    ELSE Len(sheet) + 1

\* C15: the balance parser stops at the first row whose level, account-code and
\* account-name cells are all blank: the rows it has built are the rows that
\* precede that row, in file order, the cursor never passes it, and what the
\* parser returns is exactly those rows, whatever follows the blank row.
C15_StopsAtSentinel ==
    (parser.kind = "balance") =>
        LET k == FirstBlank(parser.sheet)
        IN  /\ parser.idx <= k
            /\ Len(parser.rows) < k
            /\ parser.rows = [i \in 1..Len(parser.rows) |->
                                BalanceRowOf(parser.sheet[i], i)]
            /\ (parser.pc = "returned") => Len(parser.rows) = k - 1

\* one row, a blank row, then a populated row that is never read
C15_Witness ==
    /\ parser.kind = "balance" /\ parser.pc = "returned"
    /\ parser.sheet = << FilaActivo, FilaVacia, FilaActivo >>
    /\ Len(parser.rows) = 1

\* position of the first row whose cells are all empty, or one past the last row
FirstEmpty(sheet) ==
    IF \E i \in DOMAIN sheet : isna_all(sheet[i])
    THEN CHOOSE i \in DOMAIN sheet :
            isna_all(sheet[i]) /\ \A j \in 1..(i - 1) : ~isna_all(sheet[j])
    ELSE Len(sheet) + 1

RECURSIVE FilasDe(_)
\* the sheet rows behind a list of groups: each header, then its details
FilasDe(grupos) ==
    IF grupos = << >> THEN << >>
    ELSE << grupos[1].encabezado.fila >>
            \o [d \in DOMAIN grupos[1].detalles |-> grupos[1].detalles[d].fila]
            \o FilasDe(Tail(grupos))

\* every row read so far is in the output, in sheet order, a header row opening
\* a group and a detail row inside the group of the nearest header before it
Attached ==
    (parser.kind = "flujo_caja") =>
        LET todos == parser.grupos \o parser.grupo_actual
        IN  /\ parser.idx <= FirstEmpty(parser.sheet)
            /\ FilasDe(todos) = [i \in 1..Len(FilasDe(todos)) |-> i]
            /\ parser.pc # "raised" => Len(FilasDe(todos)) = parser.idx - 1
            /\ \A g \in DOMAIN todos :
                /\ es_fila_encabezado(parser.sheet[todos[g].encabezado.fila])
                /\ \A d \in DOMAIN todos[g].detalles :
                      ~es_fila_encabezado(parser.sheet[todos[g].detalles[d].fila])

\* C16: in the cash-flow grouping parser every parsed detail row is attached to
\* the group of the most recently parsed header row before it, in sheet order,
\* and no row that was read is dropped; a sheet whose first row is not empty and
\* is classified as a detail makes the parse raise instead of returning.
C16_DetailBelongsToOpenHeader ==
    /\ Attached
    /\ (parser.kind = "flujo_caja" /\ parser.pc = "returned") =>
          Len(FilasDe(parser.grupos)) = FirstEmpty(parser.sheet) - 1
    /\ (parser.kind = "flujo_caja" /\ Len(parser.sheet) >= 1
            /\ ~isna_all(parser.sheet[1]) /\ ~es_fila_encabezado(parser.sheet[1])) =>
          parser.pc # "returned"

\* the first row is a detail: the parse has raised and produced no group
C16_Witness ==
    /\ parser.kind = "flujo_caja" /\ parser.pc = "raised"
    /\ parser.sheet = << FlujoDetalle, FlujoEncabezado, FlujoDetalle >>
    /\ parser.grupos = << >>

\* C16 as stated: the parse fails whenever the first non-blank row of the sheet
\* is classified as a detail
C16_FirstNonBlankDetailFails ==
    /\ Attached
    /\ (parser.kind = "flujo_caja"
          /\ \E i \in DOMAIN parser.sheet :
                /\ \A j \in 1..(i - 1) : isna_all(parser.sheet[j])
                /\ ~isna_all(parser.sheet[i])
                /\ ~es_fila_encabezado(parser.sheet[i])) =>
          parser.pc # "returned"

\* C17: whatever the interleaving of update_job, get_job and delete_job calls
\* of different threads on the same job id, no call raises an exception.
C17_NoOperationRaises ==
    \A t \in DOMAIN threads : threads[t].raised = "none"

\* the call that thread t has in flight acts on job j
ActsOn(t, j) ==
    \/ threads[t].op \in {"update_job", "delete_job"} /\ threads[t].id = j
    \/ threads[t].op = "none" /\ threads[t].mine = 0 /\ threads'[t].mine = j

\* a job that only its own thread has updated or deleted holds the record that
\* thread alone would have produced
OwnJobAsAlone ==
    \A t \in DOMAIN threads :
        (threads[t].mine # 0
            /\ \A o \in DOMAIN threads \ {t} : threads[t].mine \notin threads[o].touched) =>
            jobs[threads[t].mine] = threads[t].alone

\* C18: calls on different job ids never conflict: a step of create_job,
\* update_job or delete_job on one job leaves the record of every other job
\* unchanged, and under every interleaving a job touched by its own thread only
\* holds the record it would hold had that thread run alone.
C18_DifferentJobsIndependent ==
    [][/\ \A j \in 1..MaxSubmissions :
            (jobs'[j] # jobs[j]) =>
                \E t \in DOMAIN threads : threads'[t] # threads[t] /\ ActsOn(t, j)
       /\ OwnJobAsAlone']_vars

\* two threads have each created and completed their own job
C18_Witness ==
    /\ DOMAIN threads = Threads
    /\ \A t \in Threads :
          /\ threads[t].mine # 0 /\ threads[t].touched = {threads[t].mine}
          /\ jobs[threads[t].mine] # NoJob
          /\ jobs[threads[t].mine].status = "completed"
    /\ jobs[1].updated_at > jobs[2].created_at
    /\ jobs[2].updated_at > jobs[1].updated_at

\* C19: when structural validation fails, processing halts before any database
\* write of the submission: the persistence call is never entered, no row,
\* header or detail is inserted, and the job ends Failed with exactly the
\* validator's error list.
C19_ValidationFailureHalts ==
    (nsub >= 1 /\ loc.verrors # << >>) =>
        /\ rpc = "idle" /\ trace = << >> /\ ~returns[nsub].returned
        /\ db.tx_balance = << >> /\ db.tx_encabezados = << >> /\ db.tx_detalles = << >>
        /\ CommittedOf(nsub) = << >>
        /\ (pc = "cleanup") =>
              /\ jobs[nsub].status = "failed"
              /\ jobs[nsub].errors = loc.verrors

\* a statement of the persistence call other than a rollback or the close raised
InfraError(k) == ~trace[k].ok /\ trace[k].op \notin {"rollback", "close"}

\* C20: when a database statement of a persistence call raises, a rollback is
\* attempted on the open transaction, a failure of that rollback is swallowed,
\* and the call returns a structured failure whose error text is that of the
\* statement that raised, never that of the rollback.
C20_RollbackFailureSwallowed ==
    (nsub >= 1 /\ returns[nsub].returned /\ \E k \in DOMAIN trace : InfraError(k)) =>
        /\ ~returns[nsub].raised
        /\ ~returns[nsub].result.success
        /\ Has("begin", TRUE) => Issued("rollback")
        /\ \A i \in DOMAIN returns[nsub].result.errors :
              returns[nsub].result.errors[i].msg # "E_rollback"

\* C21: the row number carried by a parse error is the 1-based position of the
\* offending row in the workbook: the skipped rows, the row of column names,
\* and the position of the row among the data rows.
C21_ErrorRowIsSheetRow ==
    (parser.kind # "none" /\ parser.pc = "raised" /\ parser.error_fila # 0) =>
        parser.error_fila = SkipRows + 1 + parser.idx

\* number of successful database calls of kind op in the current persistence call
Count(op) == Cardinality({k \in DOMAIN trace : trace[k] = Ev(op, TRUE)})

\* transaction rows of the current submission
OwnTxEncabezados == SelectSeq(db.tx_encabezados, LAMBDA e : e.sub = nsub)

OwnTxDetalles(id) == SelectSeq(db.tx_detalles, LAMBDA x : x.id_encabezado = id)

\* C22: in the cash-flow persistence call group i is handled as header insert,
\* then all its detail inserts, then its balance validation, before the header
\* of group i+1; the validation reads rows that are inserted and not yet
\* committed; the one commit comes right after the last group was found valid.
C22_GroupSteps ==
    (nsub >= 1 /\ req.kind = "flujo_caja") =>
        /\ (rpc = "encabezado") =>
              /\ Len(OwnTxEncabezados) = rloc.i - 1
              /\ Count("saldos_validos") = rloc.i - 1
        /\ (rpc = "detalle") =>
              /\ Len(OwnTxEncabezados) = rloc.i
              /\ Len(OwnTxDetalles(rloc.id_encabezado)) = rloc.d - 1
              /\ Count("saldos_validos") = rloc.i - 1
        /\ (rpc = "validar") =>
              /\ Len(OwnTxEncabezados) = rloc.i
              /\ OwnTxEncabezados[rloc.i].id = rloc.id_encabezado
              /\ Len(OwnTxDetalles(rloc.id_encabezado)) = Len(loc.grupos[rloc.i].detalles)
              /\ \A k \in DOMAIN db.encabezados : db.encabezados[k].sub # nsub
        /\ \A k \in DOMAIN trace :
              trace[k].op = "commit" =>
                  /\ k > 1 /\ trace[k - 1] = Ev("saldos_validos", TRUE)
                  /\ Cardinality({m \in 1..k : trace[m] = Ev("saldos_validos", TRUE)})
                        = Len(loc.grupos)
                  /\ \A m \in DOMAIN trace : trace[m].op = "commit" => m = k

\* two groups were inserted and validated in turn and the commit has returned
C22_Witness ==
    /\ nsub >= 1 /\ req.kind = "flujo_caja" /\ Len(loc.grupos) = 2
    /\ Has("commit", TRUE) /\ Count("saldos_validos") = 2

\* C23: over the life of a job its progress never decreases and stays within
\* 0..100, on every path of both workers, the exception handlers included.
C23_ProgressMonotone ==
    [][\A j \in 1..MaxSubmissions :
          /\ (j <= nsub') => jobs'[j].progress \in 0..100
          /\ (j <= nsub) => jobs'[j].progress >= jobs[j].progress]_vars

\* a cash-flow job that stopped at 50 in the persistence call and was closed at
\* 100 by the except block of the service
C23_Witness ==
    /\ nsub >= 1 /\ req.kind = "flujo_caja" /\ pc = "cleanup"
    /\ returns[nsub].returned /\ returns[nsub].raised
    /\ jobs[nsub].status = "failed" /\ jobs[nsub].progress = 100

\* C24: the tracker passes through every stage: a job becomes Validating only
\* from Processing, Saving only from Validating and Completed only from Saving,
\* in the balance worker and in the cash-flow worker alike.
C24_StagesInOrder ==
    [][\A j \in 1..MaxSubmissions :
          (j <= nsub /\ jobs'[j].status # jobs[j].status) =>
              /\ (jobs'[j].status = "validating") => jobs[j].status = "processing"
              /\ (jobs'[j].status = "saving") => jobs[j].status = "validating"
              /\ (jobs'[j].status = "completed") => jobs[j].status = "saving"]_vars

\* a cell that the spreadsheet reader delivered empty, or that holds spaces only
SinValor(v) == v = NaN \/ strip(v) = ""

\* C25: the cash-flow row classifier answers header exactly when the row has
\* neither a voucher number nor a sequence number, or when its account-code
\* cell begins with the marker text; every other row is a detail.  Stated
\* over the rows the parser has classified and placed in a group.
C25_HeaderIffNoVoucherOrMarker ==
    (parser.kind = "flujo_caja") =>
        \A i \in 1..(parser.idx - 1) :
            es_fila_encabezado(parser.sheet[i]) <=>
                \/ SinValor(parser.sheet[i].comprobante) /\ SinValor(parser.sheet[i].secuencia)
                \/ strip(str(parser.sheet[i].codigo)) \in ConPrefijoCuenta

\* header rows among the rows before the first completely empty row
HeaderRows(sheet) ==
    {i \in 1..(FirstEmpty(sheet) - 1) : es_fila_encabezado(sheet[i])}

\* C26: the cash-flow parser stops at the first row that is empty in every
\* column and reads no row at or after it; when the walk ends, by that row or
\* by the end of the sheet, the open group is in the result: every header row
\* before the stop is the header of exactly one returned group.
C26_StopsAndFlushes ==
    (parser.kind = "flujo_caja") =>
        /\ parser.idx <= FirstEmpty(parser.sheet)
        /\ \A g \in DOMAIN parser.grupos :
              parser.grupos[g].encabezado.fila < FirstEmpty(parser.sheet)
        /\ (parser.pc = "returned") =>
              /\ parser.grupo_actual = << >>
              /\ {parser.grupos[g].encabezado.fila : g \in DOMAIN parser.grupos}
                    = HeaderRows(parser.sheet)
              /\ Len(parser.grupos) = Cardinality(HeaderRows(parser.sheet))

\* a header, an empty row, then a header that is never read: one group returned
C26_Witness ==
    /\ parser.kind = "flujo_caja" /\ parser.pc = "returned"
    /\ parser.sheet = << FlujoEncabezado, FlujoVacia, FlujoEncabezado >>
    /\ Len(parser.grupos) = 1 /\ parser.grupos[1].encabezado.fila = 1

\* the earliest check a group fails, in the order the loop makes them, or
\* "" when the group passes all three
FirstViolation(grupo) ==
    IF grupo.encabezado.codigo_contable = "" THEN "grupo sin código contable"
    ELSE IF Len(grupo.detalles) = 0 THEN "encabezado sin detalles"
    ELSE IF \E k \in 1..Len(grupo.detalles) : grupo.detalles[k].codigo_contable = ""
         THEN "detalle sin código contable"
    ELSE ""

Mensajes(errors, msg, fila) ==
    Cardinality({k \in 1..Len(errors) : errors[k].msg = msg /\ errors[k].fila = fila})

\* C28: validate_data accumulates: one message for a date that is not an
\* 8-digit number, one for a blank client id, and one message with the row's
\* number for each missing level, account code or account name of each row,
\* nothing else; "valid" is true exactly when the list of messages is empty.
C28_Accumulates ==
    (parser.kind = "validate_data" /\ parser.pc = "returned") =>
        LET v == parser.validacion
            rows == parser.rows
            UnoSi(cond) == IF cond THEN 1 ELSE 0
            PorFila(i) ==
                UnoSi(rows[i].nivel = "") + UnoSi(rows[i].codigo = << >>)
                    + UnoSi(rows[i].nombre = "")
            DeFilas[i \in 0..Len(rows)] == IF i = 0 THEN 0 ELSE DeFilas[i - 1] + PorFila(i)
        IN  /\ Mensajes(v.errors, "Fecha debe estar en formato YYYYMMDD", 0)
                   = UnoSi(parser.fecha # "20240630")
            /\ Mensajes(v.errors, "Identificación del cliente es requerida", 0)
                   = UnoSi(parser.cliente \in {"", "  "})
            /\ \A i \in 1..Len(rows) :
                   /\ Mensajes(v.errors, "Nivel es requerido", i + 7)
                          = UnoSi(rows[i].nivel = "")
                   /\ Mensajes(v.errors, "Código cuenta contable es requerido", i + 7)
                          = UnoSi(rows[i].codigo = << >>)
                   /\ Mensajes(v.errors, "Nombre cuenta contable es requerido", i + 7)
                          = UnoSi(rows[i].nombre = "")
            /\ Len(v.errors) = UnoSi(parser.fecha # "20240630")
                                 + UnoSi(parser.cliente \in {"", "  "}) + DeFilas[Len(rows)]
            /\ v.valid <=> (Len(v.errors) = 0)

\* a bad date, a blank client and a second row missing all three fields give
\* five messages, the first row none
C28_Witness ==
    /\ parser.kind = "validate_data" /\ parser.pc = "returned"
    /\ parser.fecha = "2024-06-30" /\ parser.cliente = "  "
    /\ Len(parser.rows) = 2
    /\ parser.rows[1] = RowActivo
    /\ parser.rows[2].nivel = "" /\ parser.rows[2].codigo = << >> /\ parser.rows[2].nombre = ""
    /\ Len(parser.validacion.errors) = 5
    /\ ~parser.validacion.valid

\* C29: validar_saldos answers valid exactly when the header's debit is within
\* 0.01 of the sum of its details' debits and its credit within 0.01 of the
\* sum of their credits; a mismatch is answered invalid with the message of
\* the debit comparison if that one fails and of the credit comparison
\* otherwise; a query that raises is answered invalid.
C29_ValidWithinTolerance ==
    (parser.kind = "validar_saldos" /\ parser.pc = "returned") =>
        LET v == parser.validacion
            enc == db.tx_encabezados[1]
            debito_det == SeqSum([k \in DOMAIN db.tx_detalles |-> db.tx_detalles[k].debito])
            credito_det == SeqSum([k \in DOMAIN db.tx_detalles |-> db.tx_detalles[k].credito])
            DebitoOk == Abs(enc.debito - debito_det) <= Tolerancia
            CreditoOk == Abs(enc.credito - credito_det) <= Tolerancia
        IN  IF v.msg = "Error al validar saldos" THEN ~v.valid
            ELSE /\ v.valid <=> (DebitoOk /\ CreditoOk)
                 /\ ~DebitoOk => v.msg = "Los débitos no coinciden"
                 /\ (DebitoOk /\ ~CreditoOk) => v.msg = "Los créditos no coinciden"

\* C30: a job is created with no start and no completion time; update_job
\* stamps the start time when the status is first set to processing and
\* never changes it afterwards, and stamps the completion time when the
\* status is set to completed or failed; neither is set on any other occasion.
C30_TimestampsStamped ==
    [][\A j \in 1..MaxSubmissions :
          /\ (jobs[j] = NoJob /\ jobs'[j] # NoJob) =>
                 jobs'[j].started_at = Nil /\ jobs'[j].completed_at = Nil
          /\ (jobs[j] # NoJob /\ jobs'[j] # NoJob) =>
                 /\ (jobs[j].status # "processing" /\ jobs'[j].status = "processing")
                        => jobs'[j].started_at # Nil
                 /\ (jobs[j].started_at # Nil)
                        => jobs'[j].started_at = jobs[j].started_at
                 /\ (jobs[j].started_at = Nil /\ jobs'[j].started_at # Nil)
                        => jobs'[j].status = "processing"
                 /\ (jobs[j].status \notin Terminal /\ jobs'[j].status \in Terminal)
                        => jobs'[j].completed_at # Nil
                 /\ (jobs'[j].completed_at # jobs[j].completed_at)
                        => jobs'[j].status \in Terminal]_vars

\* C31: update_job on an existing job is a partial-field merge.  Each of
\* status, message, progress, total_rows, processed_rows, errors and result
\* takes the value the call supplies and keeps its value when the call
\* supplies none; besides those only updated_at, started_at and completed_at
\* may change.
C31_PartialMerge ==
    [][(/\ parser.kind = "update_job" /\ parser.pc = "loop" /\ parser'.pc # "loop"
        /\ jobs[parser.id] # NoJob)
       => LET u == parser.u
              old == jobs[parser.id]
              new == jobs'[parser.id]
          IN  /\ new # NoJob
              /\ new.status = IF u.status # "nil" THEN u.status ELSE old.status
              /\ new.message = IF u.message # "nil" THEN u.message ELSE old.message
              /\ new.progress = IF u.progress # Nil THEN u.progress ELSE old.progress
              /\ new.total_rows = IF u.total_rows # Nil THEN u.total_rows ELSE old.total_rows
              /\ new.processed_rows =
                     IF u.processed_rows # Nil THEN u.processed_rows ELSE old.processed_rows
              /\ new.errors = IF u.errors # NilErrors THEN u.errors ELSE old.errors
              /\ new.result = IF u.result # NoResult THEN u.result ELSE old.result
              /\ new.created_at = old.created_at
              /\ \A j \in 1..MaxSubmissions : j # parser.id => jobs'[j] = jobs[j]]_vars

\* the rows of the client and date whose closing balance is more than 0.01
\* away from opening + debit - credit
Descuadradas ==
    {x \in {Visible(db)[i] : i \in 1..Len(Visible(db))} :
        /\ x.fecha = FechaCarga /\ x.id_cliente = Clientes["900123456"]
        /\ Diferencia(x.row) > Tolerancia}

\* C32: the discrepancy list holds only rows that are off by more than 0.01,
\* each once; it holds all of them, or 100 when more qualify; it is ordered
\* by non-increasing discrepancy, and no row left out is further off than a
\* row that was kept.
C32_TopDiscrepancies ==
    (parser.kind = "get_errores_ecuacion" /\ parser.pc = "returned") =>
        LET out == parser.rows
            Out == {out[k] : k \in 1..Len(out)}
        IN  /\ Len(out) <= TopErrores
            /\ Cardinality(Out) = Len(out)
            /\ Out \subseteq Descuadradas
            /\ Len(out) = IF Cardinality(Descuadradas) > TopErrores
                          THEN TopErrores ELSE Cardinality(Descuadradas)
            /\ \A k \in 1..(Len(out) - 1) :
                   Diferencia(out[k].row) >= Diferencia(out[k + 1].row)
            /\ \A x \in Descuadradas \ Out : \A y \in Out :
                   Diferencia(y.row) >= Diferencia(x.row)

\* more than 100 rows qualify, given in ascending order of discrepancy: 100
\* are returned and the first is the farthest off
C32_Witness ==
    /\ parser.kind = "get_errores_ecuacion" /\ parser.pc = "returned"
    /\ Cardinality(Descuadradas) > TopErrores
    /\ Len(parser.rows) = TopErrores
    /\ Diferencia(db.tx_balance[1].row) < Diferencia(db.tx_balance[2].row)
    /\ Diferencia(parser.rows[1].row) = MaxTabla

\* C33: every row the balance parser has emitted has a non-empty level, a
\* non-empty account code and a non-empty account name, and its transactional
\* flag is "Sí" or "No".
C33_EmittedRowsComplete ==
    (parser.kind = "balance") =>
        \A k \in 1..Len(parser.rows) :
            /\ parser.rows[k].nivel # ""
            /\ parser.rows[k].codigo \notin {"", "nan", NaN}
            /\ parser.rows[k].nombre # ""
            /\ parser.rows[k].transaccional \in {"Sí", "No"}

\* what submission n has permanently in the database: balance rows and
\* cash-flow headers
Persisted(n) ==
    CommittedOf(n) \o SelectSeq(db.encabezados, LAMBDA e : e.sub = n)

\* C34: the terminal status agrees with the transaction: a Completed job has
\* its data committed and a Failed job has nothing committed, whatever goes
\* wrong after the COMMIT.
C34_StatusAgreesWithTransaction ==
    \A j \in 1..nsub :
        (jobs[j] # NoJob) =>
            /\ (jobs[j].status = "completed") => Persisted(j) # << >>
            /\ (jobs[j].status = "failed") => Persisted(j) = << >>

\* C35: a job's terminal status is written once: after a step has set the
\* status to Completed or Failed, no later step of the worker or of the thread
\* wrapper sets a status again, neither the other terminal one nor the same
\* (a second write would move completed_at).
C35_TerminalWrittenOnce ==
    [][\A j \in 1..MaxSubmissions :
          (j <= nsub /\ jobs[j].status \in Terminal) =>
              /\ jobs'[j].status = jobs[j].status
              /\ jobs'[j].completed_at = jobs[j].completed_at]_vars

\* a Completed job whose thread has still to run its finally block
C35_Witness ==
    /\ nsub >= 1 /\ pc = "cleanup"
    /\ jobs[nsub].status = "completed"
    /\ jobs[nsub].completed_at # Nil

\* C36: the job is in the registry, Pending with progress 0 and no errors,
\* when its worker thread starts; the worker's first update finds it and sets
\* it to Processing; from the acknowledgment on, a look-up of any submitted id
\* finds a job.
C36_RegisteredBeforeStart ==
    [][/\ \A j \in 1..nsub' : jobs'[j] # NoJob
       /\ (pc' \in {"b_start", "c_start"}) =>
              /\ jobs'[nsub'].status = "pending"
              /\ jobs'[nsub'].progress = 0
              /\ jobs'[nsub'].errors = << >>
       /\ (pc \in {"b_start", "c_start"} /\ pc' \notin {"b_start", "c_start"}) =>
              jobs'[nsub].status = "processing"]_vars

\* the second submission is registered and about to start while the first
\* job, finished, is still found
C36_Witness ==
    /\ nsub = 2 /\ pc \in {"b_start", "c_start"}
    /\ jobs[2] # NoJob /\ jobs[2].status = "pending"
    /\ jobs[1] # NoJob /\ jobs[1].status \in Terminal

\* C37: a step of update_job made while its id is not in the registry ends
\* the call with "not found" (no exception), changes no job and does not put
\* the id back; an id that is absent stays absent.
C37_AbsentIdUntouched ==
    [][/\ \A j \in 1..nsub : (jobs[j] = NoJob) => (jobs'[j] = NoJob)
       /\ \A t \in DOMAIN threads :
              (/\ threads[t].op = "update_job"
               /\ jobs[threads[t].id] = NoJob
               /\ threads'[t] # threads[t])
              => /\ jobs' = jobs
                 /\ threads'[t].op = "none"
                 /\ threads'[t].raised = "none"]_vars

\* C38: a parse of the cash-flow sheet that returns has neither dropped nor
\* duplicated a row: groups plus details number as many as the rows before
\* the first empty row (all rows when there is none), and each header followed
\* by its details, group after group, is those rows in sheet order, each
\* converted from its own row.
C38_NoRowLostOrDuplicated ==
    (parser.kind = "flujo_caja" /\ parser.pc = "returned") =>
        LET grupos == parser.grupos
            n == FirstEmpty(parser.sheet) - 1
        IN  /\ Len(grupos) + SeqSum([g \in DOMAIN grupos |-> Len(grupos[g].detalles)]) = n
            /\ FilasDe(grupos) = [i \in 1..n |-> i]
            /\ \A g \in DOMAIN grupos :
                   /\ grupos[g].encabezado =
                          procesar_encabezado(parser.sheet[grupos[g].encabezado.fila],
                                              grupos[g].encabezado.fila)
                   /\ \A d \in DOMAIN grupos[g].detalles :
                          grupos[g].detalles[d] =
                              procesar_detalle(parser.sheet[grupos[g].detalles[d].fila],
                                               grupos[g].detalles[d].fila)

\* header, detail, header: two groups and one detail for three rows
C38_Witness ==
    /\ parser.kind = "flujo_caja" /\ parser.pc = "returned"
    /\ parser.sheet = << FlujoEncabezado, FlujoDetalle, FlujoEncabezado >>
    /\ Len(parser.grupos) = 2
    /\ Len(parser.grupos[1].detalles) = 1
    /\ Len(parser.grupos[2].detalles) = 0

====
